---------------------------- MODULE Spec2Model ----------------------------
(***************************************************************************)
(* The node sidebar of the workflow editor (NodeSidebar): the working      *)
(* configuration of the selected node, the store's committed               *)
(* configurations, and the lodash debounce through which slider edits      *)
(* reach the store.                                                        *)
(*                                                                         *)
(* Temperatures are counted in tenths (0.7 is 7); the slider step of a     *)
(* float field is 0.1.  Time is counted in milliseconds.                   *)
(***************************************************************************)
EXTENDS Integers, Sequences, FiniteSets, TLC

\* ------------------------------------------------------------------ bounds
\* Timers of unmounted sidebar instances that may be pending at once.
MaxOrphans == 1
\* The largest amount of time one Tick step lets pass.
TickMs == 150
\* The fields of the largest mapping and of the largest properties map the
\* schema translators are given.
MaxFields == 2
\* The edges of the largest graph.
MaxEdges == 2
\* The calls of createNode.
MaxCreated == 2
\* The examples of the longest few_shot_examples list.
MaxExamples == 3

\* --------------------------------------------------------------- constants
\* debounce(..., 300)
DebounceWait == 300
\* `|| 0.7`, in tenths
DefaultTemperature == 7
\* a field the config does not hold (undefined)
Unset == -1

NoModel == "undefined"
NoNode == "null"

\* a node of state.flow.nodes: its id, where it is on the canvas and what it
\* is drawn with
FlowNode(id) == [id |-> id, position |-> 0, data |-> 0]

DefaultModel == "gpt-4o"

\* ---------------------------------------------------------------- registry
\* The graph of the model: two nodes, of an LLM type that declares model
\* constraints and of a type that declares none.
Nodes == {"n1", "n2"}

NodeType(n) ==
    IF n = "n1" THEN "SingleLLMCallNode" ELSE "AgentNode"

\* enum values of llm_info.model
ModelIds == {"gpt-4o", "claude-3-5-sonnet", "o1", "ollama/llama3"}

\* nodeSchema.model_constraints of a node type; "ollama/llama3" is absent
\* from the constraints of the type that declares some.
ModelConstraintsOf(type) ==
    IF type = "SingleLLMCallNode"
    THEN [m \in {"gpt-4o", "claude-3-5-sonnet", "o1"} |->
            IF m = "gpt-4o"
            THEN [min_temperature |-> 0, max_temperature |-> 20, max_tokens |-> 16384,
                  supports_JSON_output |-> TRUE]
            ELSE IF m = "claude-3-5-sonnet"
            THEN [min_temperature |-> 0, max_temperature |-> 10, max_tokens |-> 4096,
                  supports_JSON_output |-> TRUE]
            ELSE [min_temperature |-> 10, max_temperature |-> 10, max_tokens |-> 8000,
                  supports_JSON_output |-> FALSE]]
    ELSE << >>

\* the fields nodeSchema.config of a node type declares besides
\* llm_info.model
SchemaFields(type) ==
    IF type = "SingleLLMCallNode"
    THEN {"llm_info.temperature", "llm_info.max_tokens", "system_message",
          "user_message", "output_schema", "output_json_schema"}
    ELSE {"llm_info.temperature"}

\* static field metadata (minimum, maximum) of the slider fields
FieldMetadata(type, path) ==
    IF path = "llm_info.temperature"
    THEN [minimum |-> IF type = "SingleLLMCallNode" THEN 0 ELSE 5, maximum |-> 20]
    ELSE [minimum |-> 0, maximum |-> 16384]

\* slider positions and text values the model tries
TemperatureValues == {0, 15}
MaxTokensValues == {8000}
MessageValues == {"", "hi"}

NullConstraints == [null |-> TRUE]

\* ------------------------------------------------------- JavaScript values
\* A value is a record of its type, its text (strings, numbers, booleans) and
\* its own properties in insertion order (objects; the elements of an array
\* under their indices).
JUndefined == [t |-> "undefined", s |-> "", kv |-> << >>]
JNull == [t |-> "null", s |-> "", kv |-> << >>]
JStr(x) == [t |-> "string", s |-> x, kv |-> << >>]
JNum(x) == [t |-> "number", s |-> x, kv |-> << >>]
JBool(x) == [t |-> "boolean", s |-> x, kv |-> << >>]
JObj(kv) == [t |-> "object", s |-> "", kv |-> kv]
JArr(items) ==
    [t |-> "array", s |-> "",
     kv |-> [i \in DOMAIN items |-> <<ToString(i - 1), items[i]>>]]

\* !v
Falsy(v) ==
    \/ v.t \in {"undefined", "null"}
    \/ v.t = "string" /\ v.s = ""
    \/ v.t = "number" /\ v.s = "0"
    \/ v.t = "boolean" /\ v.s = "false"

\* typeof v === 'object'
TypeofObject(v) == v.t \in {"object", "array", "null"}

HasOwn(kv, k) == \E i \in DOMAIN kv : kv[i][1] = k

\* obj.k
GetOwn(kv, k) ==
    IF HasOwn(kv, k) THEN kv[CHOOSE i \in DOMAIN kv : kv[i][1] = k][2]
    ELSE JUndefined

\* the definition of an own property (JSON.parse, an object literal)
DefineOwn(kv, k, v) ==
    IF HasOwn(kv, k)
    THEN [i \in DOMAIN kv |-> IF kv[i][1] = k THEN <<k, v>> ELSE kv[i]]
    ELSE Append(kv, <<k, v>>)

\* obj[k] = v on an ordinary object: the name __proto__ is the accessor of
\* Object.prototype, so assigning to it creates no own property
SetProp(kv, k, v) ==
    IF k = "__proto__" THEN kv ELSE DefineOwn(kv, k, v)

\* Object.keys
Keys(kv) == [i \in DOMAIN kv |-> kv[i][1]]

\* -------------------------------------------------------------------- text
\* A text is a sequence of tokens: the punctuation of JSON, the quote, the
\* backslash, white space, and words.  A word stands for its characters; the
\* texts of the model put a backslash before a quote, a bracket, a backslash
\* or the letters n and t only.
Quote == "\""
Backslash == "\\"
Whitespace == {" ", "\n", "\t"}
NumberTokens == {"0", "5"}

Fail == [ok |-> FALSE, v |-> JNull, i |-> 0]
Ok(v, i) == [ok |-> TRUE, v |-> v, i |-> i]

\* F of the value of v: the value is computed once, however often F uses it
Once(v, F(_)) == CHOOSE r \in {F(w) : w \in {v}} : TRUE

RECURSIVE SkipWs(_, _)
SkipWs(s, i) ==
    IF i <= Len(s) /\ s[i] \in Whitespace THEN SkipWs(s, i + 1) ELSE i

\* the characters of a string literal, from position i to its closing quote
RECURSIVE ParseChars(_, _, _)
ParseChars(s, i, acc) ==
    IF i > Len(s) THEN Fail
    ELSE IF s[i] = Quote THEN Ok(JStr(acc), i + 1)
    ELSE IF s[i] \in {"\n", "\t"} THEN Fail
    ELSE IF s[i] = Backslash
    THEN IF i + 1 > Len(s) THEN Fail
         ELSE IF s[i + 1] \in {Quote, Backslash} THEN ParseChars(s, i + 2, acc \o s[i + 1])
         ELSE IF s[i + 1] = "n" THEN ParseChars(s, i + 2, acc \o "\n")
         ELSE IF s[i + 1] = "t" THEN ParseChars(s, i + 2, acc \o "\t")
         ELSE Fail
    ELSE ParseChars(s, i + 1, acc \o s[i])

RECURSIVE ParseValue(_, _)
RECURSIVE ParseMembers(_, _, _, _)
RECURSIVE ParseElements(_, _, _, _)

ParseValue(s, i0) ==
    Once(SkipWs(s, i0), LAMBDA i :
        IF i > Len(s) THEN Fail
        ELSE IF s[i] = "{" THEN ParseMembers(s, i + 1, << >>, TRUE)
        ELSE IF s[i] = "[" THEN ParseElements(s, i + 1, << >>, TRUE)
        ELSE IF s[i] = Quote THEN ParseChars(s, i + 1, "")
        ELSE IF s[i] = "null" THEN Ok(JNull, i + 1)
        ELSE IF s[i] \in {"true", "false"} THEN Ok(JBool(s[i]), i + 1)
        ELSE IF s[i] \in NumberTokens THEN Ok(JNum(s[i]), i + 1)
        ELSE Fail)

\* the rest of an object after a member: a comma and more members, or the
\* closing brace
MembersAfter(s, k, own) ==
    IF k > Len(s) THEN Fail
    ELSE IF s[k] = "," THEN ParseMembers(s, k + 1, own, FALSE)
    ELSE IF s[k] = "}" THEN Ok(JObj(own), k + 1)
    ELSE Fail

\* the value of the member named by key, after the colon at j
MemberValue(s, j, kv, key) ==
    IF j > Len(s) \/ s[j] # ":" THEN Fail
    ELSE Once(ParseValue(s, j + 1), LAMBDA val :
            IF ~val.ok THEN Fail
            ELSE Once(DefineOwn(kv, key.v.s, val.v), LAMBDA own :
                    Once(SkipWs(s, val.i), LAMBDA k : MembersAfter(s, k, own))))

ParseMembers(s, i0, kv, first) ==
    Once(SkipWs(s, i0), LAMBDA i :
        IF i > Len(s) THEN Fail
        ELSE IF s[i] = "}" /\ first THEN Ok(JObj(kv), i + 1)
        ELSE IF s[i] # Quote THEN Fail
        ELSE Once(ParseChars(s, i + 1, ""), LAMBDA key :
                IF ~key.ok THEN Fail
                ELSE Once(SkipWs(s, key.i), LAMBDA j : MemberValue(s, j, kv, key))))

\* the rest of an array after an element: a comma and more elements, or the
\* closing bracket
ElementsAfter(s, k, items) ==
    IF k > Len(s) THEN Fail
    ELSE IF s[k] = "," THEN ParseElements(s, k + 1, items, FALSE)
    ELSE IF s[k] = "]" THEN Ok(JArr(items), k + 1)
    ELSE Fail

ParseElements(s, i0, items, first) ==
    Once(SkipWs(s, i0), LAMBDA i :
        IF i > Len(s) THEN Fail
        ELSE IF s[i] = "]" /\ first THEN Ok(JArr(items), i + 1)
        ELSE Once(ParseValue(s, i), LAMBDA val :
                IF ~val.ok THEN Fail
                ELSE Once(Append(items, val.v), LAMBDA more :
                        Once(SkipWs(s, val.i), LAMBDA k : ElementsAfter(s, k, more)))))

\* JSON.parse: the value of the text, or a failure (a SyntaxError)
JSONparse(text) ==
    Once(text, LAMBDA s :
        Once(ParseValue(s, 1), LAMBDA r :
            IF r.ok /\ SkipWs(s, r.i) > Len(s) THEN r ELSE Fail))

RECURSIVE Indent(_)
Indent(depth) == IF depth = 0 THEN << >> ELSE <<" ", " ">> \o Indent(depth - 1)

\* the line break and indentation JSON.stringify(v, null, 2) puts before an
\* entry at a depth; none in a text written on one line
Break(depth, pretty) == IF pretty THEN <<"\n">> \o Indent(depth) ELSE << >>

RECURSIVE Stringify(_, _, _)
RECURSIVE StringifyEntries(_, _, _, _, _)

\* JSON.stringify(v, null, 2) when pretty, JSON.stringify(v) otherwise
Stringify(v, depth, pretty) ==
    IF v.t = "string" THEN (IF v.s = "" THEN <<Quote, Quote>> ELSE <<Quote, v.s, Quote>>)
    ELSE IF v.t \in {"number", "boolean"} THEN <<v.s>>
    ELSE IF v.t \in {"null", "undefined"} THEN <<"null">>
    ELSE LET open == IF v.t = "object" THEN "{" ELSE "["
             close == IF v.t = "object" THEN "}" ELSE "]"
         IN  IF v.kv = << >> THEN <<open, close>>
             ELSE <<open>> \o StringifyEntries(v.kv, 1, depth + 1, pretty, v.t = "object")
                  \o Break(depth, pretty) \o <<close>>

StringifyEntries(kv, i, depth, pretty, named) ==
    IF i > Len(kv) THEN << >>
    ELSE (IF i > 1 THEN <<",">> ELSE << >>)
         \o Break(depth, pretty)
         \o (IF named
             THEN Stringify(JStr(kv[i][1]), depth, pretty) \o <<":">>
                  \o (IF pretty THEN <<" ">> ELSE << >>)
             ELSE << >>)
         \o Stringify(kv[i][2], depth, pretty)
         \o StringifyEntries(kv, i + 1, depth, pretty, named)

\* the last position at or before i that holds no white space
RECURSIVE SkipWsBack(_, _)
SkipWsBack(s, i) ==
    IF i >= 1 /\ s[i] \in Whitespace THEN SkipWsBack(s, i - 1) ELSE i

\* s.trim()
Trim(text) ==
    Once(text, LAMBDA s : SubSeq(s, SkipWs(s, 1), SkipWsBack(s, Len(s))))

\* the text from position i on, every backslash followed by the token x
\* replaced, behind what the positions before i gave
RECURSIVE ReplaceFrom(_, _, _, _, _)
ReplaceFrom(s, i, x, with, acc) ==
    IF i > Len(s) THEN acc
    ELSE IF i < Len(s) /\ s[i] = Backslash /\ s[i + 1] = x
    THEN ReplaceFrom(s, i + 2, x, with, acc \o with)
    ELSE ReplaceFrom(s, i + 1, x, with, Append(acc, s[i]))

\* s.replace(/\\x/g, with): every backslash followed by the token x, left to
\* right
ReplaceEscaped(text, x, with) ==
    Once(text, LAMBDA s : ReplaceFrom(s, 1, x, with, << >>))

\* s.replace(/\\/g, '')
RemoveBackslashes(text) ==
    Once(text, LAMBDA s : SelectSeq(s, LAMBDA c : c # Backslash))

\* the cleaning of escaped characters, one pass
Cleaned(jsonSchema) ==
    Trim(RemoveBackslashes(
        ReplaceEscaped(
            ReplaceEscaped(
                ReplaceEscaped(
                    ReplaceEscaped(
                        ReplaceEscaped(jsonSchema, Quote, <<Quote>>),
                        "[", <<"[">>),
                    "]", <<"]">>),
                "n", << >>),
            "t", << >>)))

\* what a translator returns: null, a mapping or a text; or it throws
Null == [null |-> TRUE, threw |-> FALSE, kv |-> << >>, text |-> << >>]
Mapping(kv) == [null |-> FALSE, threw |-> FALSE, kv |-> kv, text |-> << >>]
Text(text) == [null |-> FALSE, threw |-> FALSE, kv |-> << >>, text |-> text]
Thrown == [null |-> FALSE, threw |-> TRUE, kv |-> << >>, text |-> << >>]

\* what the first parse of the text or, when that fails, the parse of the
\* cleaned text gives
ParsedSchema(jsonSchema) ==
    Once(JSONparse(Trim(jsonSchema)), LAMBDA direct :
        IF direct.ok THEN direct ELSE JSONparse(Trim(Cleaned(jsonSchema))))

\* the loop over Object.entries(parsed.properties): the mapping so far, or
\* a TypeError ('type' in null)
RECURSIVE ExtractEntries(_, _, _)
ExtractEntries(entries, i, schema) ==
    IF i > Len(entries) THEN [threw |-> FALSE, schema |-> schema]
    ELSE LET key == entries[i][1]
             value == entries[i][2]
         IN  IF ~TypeofObject(value) THEN ExtractEntries(entries, i + 1, schema)
             ELSE IF value.t = "null" THEN [threw |-> TRUE, schema |-> schema]
             ELSE IF HasOwn(value.kv, "type")
             THEN Once(SetProp(schema, key, GetOwn(value.kv, "type")), LAMBDA set :
                      ExtractEntries(entries, i + 1, set))
             ELSE ExtractEntries(entries, i + 1, schema)

\* Object.entries(v) of a truthy value
Entries(v) == IF v.t \in {"object", "array"} THEN v.kv ELSE << >>

\* the loop over the entries of parsed.properties and the return after it
ExtractFrom(properties) ==
    IF Falsy(properties) THEN Null
    ELSE Once(Entries(properties), LAMBDA entries :
            Once(ExtractEntries(entries, 1, << >>), LAMBDA loop :
                IF loop.threw THEN Thrown
                ELSE IF Len(Keys(loop.schema)) > 0 THEN Mapping(loop.schema)
                ELSE Null))

\* the body of the outer try: parsed.properties of null and 'type' in null
\* throw a TypeError
ExtractSchema(jsonSchema) ==
    Once(ParsedSchema(jsonSchema), LAMBDA parsed :
        IF ~parsed.ok THEN Null
        ELSE IF parsed.v.t = "null" THEN Thrown
        ELSE Once(GetOwn(Entries(parsed.v), "properties"), LAMBDA properties :
                ExtractFrom(properties)))

\* the translator without its outer catch
extractSchemaUncaught(jsonSchema) == ExtractSchema(jsonSchema)

\* simplify: the outer catch turns what the body throws into null
extractSchemaFromJsonSchema(jsonSchema) ==
    Once(ExtractSchema(jsonSchema), LAMBDA result :
        IF result.threw THEN Null ELSE result)

\* the loop over Object.entries(schema): the properties so far, or the early
\* return
RECURSIVE GenerateProperties(_, _, _)
GenerateProperties(entries, i, properties) ==
    IF i > Len(entries) THEN [returned |-> FALSE, properties |-> properties]
    ELSE LET key == entries[i][1]
             type == entries[i][2]
         IN  IF key = "" \/ Falsy(type) THEN [returned |-> TRUE, properties |-> properties]
             ELSE Once(SetProp(properties, key, JObj(<< <<"type", type>> >>)), LAMBDA set :
                     GenerateProperties(entries, i + 1, set))

\* the document of the properties and of the names required
JsonSchemaOf(kv, properties) ==
    JObj(<< <<"type", JStr("object")>>,
            <<"required", JArr([i \in DOMAIN kv |-> JStr(kv[i][1])])>>,
            <<"properties", JObj(properties)>> >>)

generateJsonSchemaFromSchema(schema) ==
    IF schema.null \/ Len(Keys(schema.kv)) = 0 THEN Null
    ELSE Once(schema.kv, LAMBDA kv :
            Once(GenerateProperties(kv, 1, << >>), LAMBDA loop :
                IF loop.returned THEN Null
                ELSE Once(JsonSchemaOf(kv, loop.properties), LAMBDA jsonSchema :
                        Text(Stringify(jsonSchema, 0, TRUE)))))

\* ------------------------------------------------------------ node factory
\* An object of the heap is the sequence of its own properties; a property
\* holds a primitive or the address of an object.
Prim(x) == [ref |-> 0, prim |-> x]
Ref(a) == [ref |-> a, prim |-> ""]

\* the objects of the registry: the default configurations of the node types
RegistryHeap ==
    << << <<"llm_info", Ref(2)>>, <<"system_message", Prim("")>> >>,
       << <<"model", Prim("gpt-4o")>> >>,
       << <<"title", Prim("Agent")>> >>,
       << <<"output_schema", Ref(5)>> >>,
       << <<"x", Prim("string")>> >>,
       << <<"title", Prim("Agent2")>> >> >>

FlowWorkflowNodeType(name, config, category) ==
    [name |-> name, config |-> config, category |-> category,
     acronym |-> "T", color |-> "#fff", logo |-> ""]

\* nodeTypes, by category; the second category repeats a name of the first
NodeTypesByCategory ==
    << <<FlowWorkflowNodeType("SingleLLMCallNode", 1, "llm"),
         FlowWorkflowNodeType("AgentNode", 3, "llm")>>,
       <<FlowWorkflowNodeType("InputNode", 4, "primitives"),
         FlowWorkflowNodeType("AgentNode", 6, "primitives")>> >>

\* the type names and parents createNode is called with
TypeNames == {"SingleLLMCallNode", "AgentNode", "InputNode", "NoSuchNode"}
ParentIds == {"null", "group1"}

\* a lookup in the category c only
FindInCategory(type, c) ==
    LET found == SelectSeq(NodeTypesByCategory[c], LAMBDA node : node.name = type)
    IN  IF found # << >> THEN <<found[1]>> ELSE << >>

\* nodeTypes[category].find((node) => node.name === type), category by
\* category: the first type of that name, or none
RECURSIVE FindFrom(_, _)
FindFrom(type, c) ==
    IF c > Len(NodeTypesByCategory) THEN << >>
    ELSE LET found == SelectSeq(NodeTypesByCategory[c], LAMBDA node : node.name = type)
         IN  IF found # << >> THEN <<found[1]>> ELSE FindFrom(type, c + 1)

RECURSIVE cloneDeep(_, _)
RECURSIVE CloneProperties(_, _, _)

\* a copy that shares every object with the original
cloneShallow(h, a) == [heap |-> h, addr |-> a]

\* cloneDeep of the object at address a: the heap with the copies, and the
\* address of the copy
cloneDeep(h, a) ==
    LET r == CloneProperties(h, h[a], 1)
    IN  [heap |-> Append(r.heap, r.kv), addr |-> Len(r.heap) + 1]

CloneProperties(h, kv, i) ==
    IF i > Len(kv) THEN [heap |-> h, kv |-> << >>]
    ELSE LET v == kv[i][2]
             c == IF v.ref # 0 THEN cloneDeep(h, v.ref) ELSE [heap |-> h, addr |-> 0]
             rest == CloneProperties(c.heap, kv, i + 1)
         IN  [heap |-> rest.heap,
              kv |-> << <<kv[i][1], IF v.ref # 0 THEN Ref(c.addr) ELSE v>> >> \o rest.kv]

\* what a call returned: null, or the node and the address of its config
NullResult(type, id) ==
    [null |-> TRUE, type |-> type, id |-> id, config |-> 0, node |-> << >>]

\* createNode(nodeTypes, type, id, position, parentId) on the heap h: the heap
\* after the call and what the call returned
createNode(h, type, id, position, parentId) ==
    LET found == FindFrom(type, 1)
    IN  IF found = << >> THEN [heap |-> h, result |-> NullResult(type, id)]
        ELSE LET nodeType == found[1]
                 clone == cloneDeep(h, nodeType.config)
                 config == DefineOwn(clone.heap[clone.addr], "title", Prim(id))
                 after == Append(clone.heap, config)
                 node == [id |-> id, type |-> nodeType.name, position |-> position,
                          measured |-> "null", parentId |-> parentId,
                          expandParent |-> IF parentId # "null" THEN "true" ELSE "undefined",
                          extent |-> IF parentId # "null" THEN "parent" ELSE "undefined",
                          data |-> [title |-> id, acronym |-> nodeType.acronym,
                                    color |-> nodeType.color, logo |-> nodeType.logo,
                                    category |-> nodeType.category],
                          width |-> "undefined", height |-> "undefined"]
             IN  [heap |-> after,
                  result |-> [null |-> FALSE, type |-> type, id |-> id,
                              config |-> Len(after), node |-> node]]

\* the value of the object at an address, through every nesting depth
RECURSIVE Deep(_, _)
Deep(h, a) ==
    [i \in DOMAIN h[a] |->
        <<h[a][i][1],
          IF h[a][i][2].ref # 0
          THEN [prim |-> "", obj |-> Deep(h, h[a][i][2].ref)]
          ELSE [prim |-> h[a][i][2].prim, obj |-> << >>]>>]

\* the addresses of the objects reachable from an address
RECURSIVE Reachable(_, _)
Reachable(h, a) ==
    {a} \cup UNION {Reachable(h, h[a][i][2].ref) :
                        i \in {j \in DOMAIN h[a] : h[a][j][2].ref # 0}}

\* ------------------------------------------------------------------ config
\* A config holds the fields the model edits.  An absent title is the empty
\* string, an absent output_schema the empty mapping, an absent
\* output_json_schema the empty text and an absent few_shot_examples the
\* empty list: the sidebar reads each of them through a test (||, !,
\* Object.keys) that tells the two apart nowhere.
EmptyConfig ==
    [llm_info |-> [model |-> NoModel, temperature |-> Unset, max_tokens |-> Unset],
     system_message |-> "", title |-> "", output_schema |-> << >>,
     output_json_schema |-> << >>, few_shot_examples |-> << >>]

\* the default configuration a created node starts from
DefaultConfig ==
    [EmptyConfig EXCEPT
        !.llm_info = [model |-> "gpt-4o", temperature |-> 7, max_tokens |-> 4096]]

NoTimer == [armed |-> FALSE]

\* the largest lag the model counts
LagCap == DebounceWait + TickMs

NoCall == [fn |-> "none", schema |-> Null, text |-> << >>, out |-> Null]

NoBurst ==
    [id |-> NoNode, last |-> EmptyConfig, calls |-> 0, commits |-> 0,
     pure |-> FALSE, done |-> FALSE, lag |-> 0, idle |-> 0]

VARIABLES
    nodeConfigs,        \* state.flow.nodeConfigs: the committed configs
    selected,           \* the nodeID prop of the mounted sidebar, or NoNode
    currentNodeConfig,  \* the working config of the mounted sidebar
    pending,            \* the debounce of the mounted sidebar
    orphans,            \* pending debounces of unmounted sidebars
    lastEvent,          \* the handler that ran last
    dispatched,         \* the store actions it dispatched
    burst,              \* the slider calls made since the debounce of the
                        \* mounted sidebar was armed: the node and config of
                        \* the last call, the time since it (idle) and, for a
                        \* burst nothing else interrupted (pure), the number
                        \* of calls and commits and the time since the first
                        \* call (lag)
    showTitleError,     \* the showTitleError state of the mounted sidebar
    incomingSchema,     \* the incomingSchema state of the mounted sidebar
    nodes,              \* state.flow.nodes, in order: the id, the position and
                        \* the data of every node
    edges,              \* state.flow.edges, in order
    call,               \* a call of a schema translator: its argument and
                        \* what it returned
    heap,               \* the objects createNode reads and allocates, by
                        \* address
    created,            \* what the calls of createNode returned, in order
    uncommitted,        \* the nodes state.flow.nodeConfigs has no entry for
                        \* (nodeConfig is undefined); nodeConfigs holds the
                        \* empty config for them
    crashed,            \* an effect of the sidebar threw and React unmounted
                        \* the tree
    fewShotIndex        \* the fewShotIndex state of the mounted sidebar: the
                        \* example the editor is open for, or Unset (null)

vars == <<nodeConfigs, selected, currentNodeConfig, pending, orphans,
          lastEvent, dispatched, burst, showTitleError, incomingSchema,
          nodes, edges, call, heap, created, uncommitted, crashed,
          fewShotIndex>>

\* the graph, and the state of the functions outside the sidebar
elsewhere == <<nodes, edges, call, heap, created, crashed>>

MinOf(a, b) == IF a <= b THEN a ELSE b
MaxOf(a, b) == IF a >= b THEN a ELSE b

\* x || d for a number: undefined and 0 are falsy
OrElse(x, d) == IF x = Unset \/ x = 0 THEN d ELSE x

getModelConstraints(type, modelId) ==
    IF modelId \in DOMAIN ModelConstraintsOf(type)
    THEN ModelConstraintsOf(type)[modelId]
    ELSE NullConstraints

\* the load effect: the committed config, with the model of an LLM node
\* defaulted
LoadConfig(n, nodeConfig) ==
    IF NodeType(n) \in {"LLMNode", "SingleLLMCallNode"}
    THEN [nodeConfig EXCEPT !.llm_info.model =
            IF @ = NoModel THEN DefaultModel ELSE @]
    ELSE nodeConfig

\* the working config after the render that follows a dispatch to node id
AfterDispatch(id, data, working) ==
    IF id = selected THEN LoadConfig(id, data) ELSE working

updateNodeConfigOnly(id, data) ==
    [nodeConfigs EXCEPT ![id] = data]

Commit(id, data) == [type |-> "updateNodeConfigOnly", id |-> id, data |-> data]

\* an effect of the mount that commits the config the load effect made
initializeFromLoaded(n, nodeConfig) ==
    LET jsonSchema == generateJsonSchemaFromSchema(Mapping(nodeConfig.output_schema))
        data == [LoadConfig(n, nodeConfig) EXCEPT !.output_json_schema = jsonSchema.text]
    IN  IF nodeConfig.output_schema # << >> /\ nodeConfig.output_json_schema = << >>
           /\ ~jsonSchema.null
        THEN [config |-> data, dispatched |-> <<Commit(n, data)>>]
        ELSE [config |-> nodeConfig, dispatched |-> << >>]

\* the effect of the mount: a node that holds an output_schema and no
\* output_json_schema gets the generated one, in one commit
initializeOutputJsonSchema(n, nodeConfig) ==
    LET jsonSchema == generateJsonSchemaFromSchema(Mapping(nodeConfig.output_schema))
        data == [nodeConfig EXCEPT !.output_json_schema = jsonSchema.text]
    IN  IF nodeConfig.output_schema # << >> /\ nodeConfig.output_json_schema = << >>
           /\ ~jsonSchema.null
        THEN [config |-> data, dispatched |-> <<Commit(n, data)>>]
        ELSE [config |-> nodeConfig, dispatched |-> << >>]

\* `${nodeTitle}.${key}` for every key of an output_schema
RECURSIVE Qualified(_, _, _)
Qualified(nodeTitle, keys, i) ==
    IF i > Len(keys) THEN << >>
    ELSE <<nodeTitle \o "." \o keys[i]>> \o Qualified(nodeTitle, keys, i + 1)

\* the reduce over the incoming nodes, from the i-th on, in a render that
\* holds allNodes and allNodeConfigs
RECURSIVE IncomingFrom(_, _, _, _)
IncomingFrom(incomingEdges, i, allNodes, allNodeConfigs) ==
    IF i > Len(incomingEdges) THEN << >>
    ELSE LET source == incomingEdges[i].source
             config == allNodeConfigs[source]
             nodeTitle == IF config.title # "" THEN config.title ELSE source
         IN  (IF \E j \in DOMAIN allNodes : allNodes[j].id = source
              THEN Qualified(nodeTitle, Keys(config.output_schema), 1)
              ELSE << >>)
             \o IncomingFrom(incomingEdges, i + 1, allNodes, allNodeConfigs)

\* the edges into a node, in order
RECURSIVE IncomingEdges(_, _, _)
IncomingEdges(allEdges, nodeID, i) ==
    IF i > Len(allEdges) THEN << >>
    ELSE (IF allEdges[i].target = nodeID THEN <<allEdges[i]>> ELSE << >>)
         \o IncomingEdges(allEdges, nodeID, i + 1)

\* a collector that walks the incoming edges from the last to the first
collectIncomingReversed(nodeID) ==
    LET incomingEdges == IncomingEdges(edges, nodeID, 1)
    IN  IncomingFrom([i \in DOMAIN incomingEdges |->
                         incomingEdges[Len(incomingEdges) + 1 - i]], 1,
                     nodes, nodeConfigs)

\* collectIncomingSchema of a render that holds these nodes, edges and configs
collectIncomingOver(nodeID, allNodes, allEdges, allNodeConfigs) ==
    IncomingFrom(IncomingEdges(allEdges, nodeID, 1), 1, allNodes, allNodeConfigs)

collectIncomingSchema(nodeID) ==
    collectIncomingOver(nodeID, nodes, edges, nodeConfigs)

NoBefore == [working |-> EmptyConfig, committed |-> EmptyConfig]

\* the working and the committed config of the selected node as a handler
\* finds them
Before == [working |-> currentNodeConfig, committed |-> nodeConfigs[selected]]

Event(op, id, path, num, text, before) ==
    [op |-> op, id |-> id, path |-> path, num |-> num, text |-> text,
     before |-> before]

Rest ==
    /\ selected = NoNode
    /\ currentNodeConfig = EmptyConfig
    /\ pending = NoTimer
    /\ orphans = << >>
    /\ lastEvent = Event("init", NoNode, "", Unset, "", NoBefore)
    /\ dispatched = << >>
    /\ burst = NoBurst
    /\ showTitleError = FALSE
    /\ incomingSchema = << >>
    /\ fewShotIndex = Unset

\* no translator called, nothing created, the nodes unconnected
Apart ==
    /\ nodes = <<FlowNode("n1"), FlowNode("n2")>>
    /\ edges = << >>
    /\ call = NoCall
    /\ heap = RegistryHeap
    /\ created = << >>
    /\ uncommitted = {}
    /\ crashed = FALSE

\* every node holds the default configuration it was created with
Init ==
    /\ nodeConfigs = [n \in Nodes |-> DefaultConfig]
    /\ Rest
    /\ Apart

\* a node may also hold no configuration yet (nodeConfig || {})
InitModel ==
    /\ nodeConfigs \in [Nodes -> {EmptyConfig, DefaultConfig}]
    /\ Rest
    /\ Apart

\* ----------------------------------------------------------- observation
Impure(b) == [NoBurst EXCEPT !.id = b.id, !.last = b.last, !.idle = b.idle]

\* the burst after a handler that is neither a slider call nor the expiry
Interrupted == IF pending.armed THEN Impure(burst) ELSE NoBurst

BurstAfterSlider(updatedModel, commits) ==
    IF ~pending.armed
    THEN [id |-> selected, last |-> updatedModel, calls |-> 1,
          commits |-> commits, pure |-> TRUE, done |-> FALSE, lag |-> 0,
          idle |-> 0]
    ELSE IF burst.pure /\ ~burst.done /\ burst.id = selected
    THEN [burst EXCEPT !.last = updatedModel,
                       !.calls = MinOf(2, @ + 1),
                       !.commits = MinOf(2, @ + commits),
                       !.idle = 0]
    ELSE [NoBurst EXCEPT !.id = selected, !.last = updatedModel]

BurstAfterFire(commits) ==
    IF burst.pure
    THEN [burst EXCEPT !.commits = MinOf(2, @ + commits), !.done = TRUE]
    ELSE [Impure(burst) EXCEPT !.done = TRUE]

\* ---------------------------------------------------------------- sidebar
\* the sidebar is mounted for node n: the load effect, then the effect of the
\* mount, which reads nodeConfig.output_schema and throws a TypeError when
\* nodeConfig is undefined
SelectNode(n) ==
    /\ selected = NoNode
    /\ ~crashed
    /\ IF n \in uncommitted
       THEN /\ crashed' = TRUE
            /\ lastEvent' = Event("select", n, "", Unset, "TypeError", NoBefore)
            /\ incomingSchema' = << >>
            /\ UNCHANGED <<nodeConfigs, selected, currentNodeConfig, dispatched>>
       ELSE /\ selected' = n
            /\ LET init == initializeOutputJsonSchema(n, nodeConfigs[n])
               IN  /\ nodeConfigs' = [nodeConfigs EXCEPT ![n] = init.config]
                   /\ currentNodeConfig' = LoadConfig(n, init.config)
                   /\ dispatched' = init.dispatched
            /\ lastEvent' = Event("select", n, "", Unset, "", NoBefore)
            /\ incomingSchema' = collectIncomingSchema(n)
            /\ UNCHANGED crashed
    /\ pending' = NoTimer
    /\ burst' = NoBurst
    /\ showTitleError' = FALSE
    /\ fewShotIndex' = Unset
    /\ UNCHANGED <<orphans, nodes, edges, call, heap, created, uncommitted>>

\* the close button: setSelectedNode({nodeId: null}) unmounts the sidebar;
\* nothing cancels or flushes its debounce
Deselect ==
    /\ selected # NoNode
    /\ pending.armed => Len(orphans) < MaxOrphans
    /\ selected' = NoNode
    /\ currentNodeConfig' = EmptyConfig
    /\ orphans' = IF pending.armed THEN Append(orphans, pending) ELSE orphans
    /\ pending' = NoTimer
    /\ lastEvent' = Event("deselect", selected, "", Unset, "", NoBefore)
    /\ dispatched' = << >>
    /\ burst' = NoBurst
    /\ showTitleError' = FALSE
    /\ incomingSchema' = << >>
    /\ UNCHANGED <<uncommitted, fewShotIndex>>
    /\ UNCHANGED <<nodeConfigs, elsewhere>>

\* the nodeID prop of the mounted sidebar changes to n
SwitchNode(n) ==
    /\ selected # NoNode
    /\ selected # n
    /\ selected' = n
    /\ currentNodeConfig' = LoadConfig(n, nodeConfigs[n])
    /\ lastEvent' = Event("switch", n, "", Unset, "", NoBefore)
    /\ dispatched' = << >>
    /\ burst' = Interrupted
    /\ incomingSchema' = collectIncomingSchema(n)
    /\ UNCHANGED <<uncommitted, fewShotIndex>>
    /\ UNCHANGED <<nodeConfigs, pending, orphans, showTitleError, elsewhere>>

\* the values the slider of a field offers
SliderValues(path) ==
    LET c == getModelConstraints(NodeType(selected), currentNodeConfig.llm_info.model)
        meta == FieldMetadata(NodeType(selected), path)
        min == IF c # NullConstraints /\ path = "llm_info.temperature"
               THEN c.min_temperature ELSE meta.minimum
        max == IF c = NullConstraints THEN meta.maximum
               ELSE IF path = "llm_info.temperature" THEN c.max_temperature
               ELSE c.max_tokens
        all == IF path = "llm_info.temperature" THEN TemperatureValues
               ELSE MaxTokensValues
    IN  {v \in all : min <= v /\ v <= max}

updateNestedModel(obj, path, value) ==
    IF path = "llm_info.temperature"
    THEN [obj EXCEPT !.llm_info.temperature = value]
    ELSE [obj EXCEPT !.llm_info.max_tokens = value]

\* a debounce that keeps the arguments of the first call of a burst
debouncedDispatchLeading(id, updatedModel) ==
    IF pending.armed
    THEN [pending EXCEPT !.remaining = DebounceWait]
    ELSE [armed |-> TRUE, id |-> id, data |-> updatedModel, remaining |-> DebounceWait]

\* a debounce that a further call does not restart
debouncedDispatchNoRestart(id, updatedModel) ==
    [armed |-> TRUE, id |-> id, data |-> updatedModel,
     remaining |-> IF pending.armed THEN pending.remaining ELSE DebounceWait]

\* debouncedDispatch(id, updatedModel): the one timer of the sidebar is
\* restarted and the arguments of the last call are kept
debouncedDispatch(id, updatedModel) ==
    [armed |-> TRUE, id |-> id, data |-> updatedModel, remaining |-> DebounceWait]

\* a slider handler that builds its update on the committed config
SliderEditOnCommitted(path, value) ==
    /\ selected # NoNode
    /\ path \in SchemaFields(NodeType(selected))
    /\ value \in SliderValues(path)
    /\ LET updatedModel == updateNestedModel(nodeConfigs[selected], path, value)
       IN  /\ currentNodeConfig' = updatedModel
           /\ pending' = debouncedDispatch(selected, updatedModel)
           /\ burst' = BurstAfterSlider(updatedModel, 0)
    /\ lastEvent' = Event("slider", selected, path, value, "", NoBefore)
    /\ dispatched' = << >>
    /\ UNCHANGED <<uncommitted, fewShotIndex>>
    /\ UNCHANGED <<nodeConfigs, selected, orphans, showTitleError, incomingSchema,
                    elsewhere>>

\* handleInputChange(path, value, true)
SliderEdit(path, value) ==
    /\ selected # NoNode
    /\ path \in SchemaFields(NodeType(selected))
    /\ value \in SliderValues(path)
    /\ LET updatedModel == updateNestedModel(currentNodeConfig, path, value)
       IN  /\ currentNodeConfig' = updatedModel
           /\ pending' = debouncedDispatch(selected, updatedModel)
           /\ burst' = BurstAfterSlider(updatedModel, 0)
    /\ lastEvent' = Event("slider", selected, path, value, "", NoBefore)
    /\ dispatched' = << >>
    /\ UNCHANGED <<uncommitted, fewShotIndex>>
    /\ UNCHANGED <<nodeConfigs, selected, orphans, showTitleError, incomingSchema,
                    elsewhere>>

\* a text edit that takes the slider's path to the store
EditFieldDebounced(value) ==
    /\ selected # NoNode
    /\ "system_message" \in SchemaFields(NodeType(selected))
    /\ LET updatedModel == [currentNodeConfig EXCEPT !.system_message = value]
       IN  /\ currentNodeConfig' = updatedModel
           /\ pending' = debouncedDispatch(selected, updatedModel)
           /\ burst' = BurstAfterSlider(updatedModel, 0)
    /\ lastEvent' = Event("edit", selected, "system_message", Unset, value, Before)
    /\ dispatched' = << >>
    /\ UNCHANGED <<uncommitted, fewShotIndex>>
    /\ UNCHANGED <<nodeConfigs, selected, orphans, showTitleError, incomingSchema,
                    elsewhere>>

\* handleInputChange(key, value): the text field
EditField(value) ==
    /\ selected # NoNode
    /\ "system_message" \in SchemaFields(NodeType(selected))
    /\ LET updatedModel == [currentNodeConfig EXCEPT !.system_message = value]
       IN  /\ nodeConfigs' = updateNodeConfigOnly(selected, updatedModel)
           /\ currentNodeConfig' = AfterDispatch(selected, updatedModel, updatedModel)
           /\ dispatched' = <<Commit(selected, updatedModel)>>
    /\ lastEvent' = Event("edit", selected, "system_message", Unset, value, Before)
    /\ burst' = Interrupted
    /\ uncommitted' = uncommitted \ {selected}
    /\ UNCHANGED fewShotIndex
    /\ UNCHANGED <<selected, pending, orphans, showTitleError, incomingSchema,
                    elsewhere>>

\* a model select that sets the model and clamps nothing
ChangedModelNoClamp(config, type, selectedModelId) ==
    [config EXCEPT !.llm_info.model = selectedModelId]

\* a model select that takes the larger of the current and the model's
\* max_tokens
ChangedModelMaxTokens(config, type, selectedModelId) ==
    LET modelConstraints == getModelConstraints(type, selectedModelId)
    IN  IF modelConstraints = NullConstraints
        THEN [config EXCEPT !.llm_info.model = selectedModelId]
        ELSE [config EXCEPT
                !.llm_info.model = selectedModelId,
                !.llm_info.max_tokens =
                    MaxOf(OrElse(@, modelConstraints.max_tokens),
                          modelConstraints.max_tokens),
                !.llm_info.temperature =
                    MinOf(MaxOf(OrElse(@, DefaultTemperature),
                                modelConstraints.min_temperature),
                          modelConstraints.max_temperature)]

\* a model select that defaults an unset temperature to the model's minimum
ChangedModelDefaultMin(config, type, selectedModelId) ==
    LET modelConstraints == getModelConstraints(type, selectedModelId)
    IN  IF modelConstraints = NullConstraints
        THEN [config EXCEPT !.llm_info.model = selectedModelId]
        ELSE [config EXCEPT
                !.llm_info.model = selectedModelId,
                !.llm_info.max_tokens =
                    MinOf(OrElse(@, modelConstraints.max_tokens),
                          modelConstraints.max_tokens),
                !.llm_info.temperature =
                    MinOf(MaxOf(OrElse(@, modelConstraints.min_temperature),
                                modelConstraints.min_temperature),
                          modelConstraints.max_temperature)]

\* a model select that clamps to the baseline model's constraints when the
\* selected model has none
ChangedModelFallback(config, type, selectedModelId) ==
    LET found == getModelConstraints(type, selectedModelId)
        modelConstraints ==
            IF found = NullConstraints
            THEN [min_temperature |-> 0, max_temperature |-> 10, max_tokens |-> 4096]
            ELSE found
    IN  [config EXCEPT
            !.llm_info.model = selectedModelId,
            !.llm_info.max_tokens =
                MinOf(OrElse(@, modelConstraints.max_tokens),
                      modelConstraints.max_tokens),
            !.llm_info.temperature =
                MinOf(MaxOf(OrElse(@, DefaultTemperature),
                            modelConstraints.min_temperature),
                      modelConstraints.max_temperature)]

\* the config the model select commits
ChangedModel(config, type, selectedModelId) ==
    LET modelConstraints == getModelConstraints(type, selectedModelId)
    IN  IF modelConstraints = NullConstraints
        THEN [config EXCEPT !.llm_info.model = selectedModelId]
        ELSE [config EXCEPT
                !.llm_info.model = selectedModelId,
                !.llm_info.max_tokens =
                    MinOf(OrElse(@, modelConstraints.max_tokens),
                          modelConstraints.max_tokens),
                !.llm_info.temperature =
                    MinOf(MaxOf(OrElse(@, DefaultTemperature),
                                modelConstraints.min_temperature),
                          modelConstraints.max_temperature)]

\* the onChange of the model select
ChangeModel(selectedModelId) ==
    /\ selected # NoNode
    /\ LET updatedModel ==
               ChangedModel(currentNodeConfig, NodeType(selected), selectedModelId)
       IN  /\ nodeConfigs' = updateNodeConfigOnly(selected, updatedModel)
           /\ currentNodeConfig' = AfterDispatch(selected, updatedModel, updatedModel)
           /\ dispatched' = <<Commit(selected, updatedModel)>>
    /\ lastEvent' = Event("changeModel", selected, "llm_info.model", Unset, selectedModelId, Before)
    /\ burst' = Interrupted
    /\ uncommitted' = uncommitted \ {selected}
    /\ UNCHANGED fewShotIndex
    /\ UNCHANGED <<selected, pending, orphans, showTitleError, incomingSchema,
                    elsewhere>>

\* an expiry that commits to the node selected when it fires
FireTimerToSelected ==
    /\ pending.armed
    /\ pending.remaining = 0
    /\ nodeConfigs' = updateNodeConfigOnly(selected, pending.data)
    /\ currentNodeConfig' = AfterDispatch(selected, pending.data, currentNodeConfig)
    /\ pending' = NoTimer
    /\ dispatched' = <<Commit(selected, pending.data)>>
    /\ lastEvent' = Event("fire", pending.id, "", Unset, "", NoBefore)
    /\ burst' = BurstAfterFire(1)
    /\ uncommitted' = uncommitted \ {selected}
    /\ UNCHANGED fewShotIndex
    /\ UNCHANGED <<selected, orphans, showTitleError, incomingSchema, elsewhere>>

\* the debounce of the mounted sidebar expires
FireTimer ==
    /\ pending.armed
    /\ pending.remaining = 0
    /\ nodeConfigs' = updateNodeConfigOnly(pending.id, pending.data)
    /\ currentNodeConfig' = AfterDispatch(pending.id, pending.data, currentNodeConfig)
    /\ pending' = NoTimer
    /\ dispatched' = <<Commit(pending.id, pending.data)>>
    /\ lastEvent' = Event("fire", pending.id, "", Unset, "", NoBefore)
    /\ burst' = BurstAfterFire(1)
    /\ uncommitted' = uncommitted \ {pending.id}
    /\ UNCHANGED fewShotIndex
    /\ UNCHANGED <<selected, orphans, showTitleError, incomingSchema, elsewhere>>

RemoveAt(s, i) == [j \in 1..(Len(s) - 1) |-> IF j < i THEN s[j] ELSE s[j + 1]]

\* the debounce of an unmounted sidebar expires
FireOrphan(i) ==
    /\ i \in DOMAIN orphans
    /\ orphans[i].remaining = 0
    /\ nodeConfigs' = updateNodeConfigOnly(orphans[i].id, orphans[i].data)
    /\ currentNodeConfig' = AfterDispatch(orphans[i].id, orphans[i].data, currentNodeConfig)
    /\ orphans' = RemoveAt(orphans, i)
    /\ dispatched' = <<Commit(orphans[i].id, orphans[i].data)>>
    /\ lastEvent' = Event("fireOrphan", orphans[i].id, "", Unset, "", NoBefore)
    /\ burst' = Interrupted
    /\ uncommitted' = uncommitted \ {orphans[i].id}
    /\ UNCHANGED fewShotIndex
    /\ UNCHANGED <<selected, pending, showTitleError, incomingSchema, elsewhere>>

Timers == (IF pending.armed THEN {pending} ELSE {}) \cup {orphans[i] : i \in DOMAIN orphans}

Elapse(t, d) == [t EXCEPT !.remaining = @ - d]

\* the time to the next expiry, at most TickMs
Step ==
    LET ds == {TickMs} \cup {t.remaining : t \in Timers}
    IN  CHOOSE x \in ds : \A y \in ds : x <= y

\* time passes, up to the next expiry
Tick ==
    /\ Timers # {}
    /\ \A t \in Timers : t.remaining > 0
    /\ pending' = IF pending.armed THEN Elapse(pending, Step) ELSE pending
    /\ orphans' = [i \in DOMAIN orphans |-> Elapse(orphans[i], Step)]
    /\ lastEvent' = Event("tick", NoNode, "", Unset, "", NoBefore)
    /\ burst' = IF burst.done \/ ~pending.armed THEN NoBurst
                 ELSE [burst EXCEPT
                         !.idle = MinOf(LagCap, @ + Step),
                         !.lag = IF burst.pure THEN MinOf(LagCap, @ + Step) ELSE @]
    /\ dispatched' = << >>
    /\ UNCHANGED <<uncommitted, fewShotIndex>>
    /\ UNCHANGED <<nodeConfigs, selected, currentNodeConfig, showTitleError,
                    incomingSchema, elsewhere>>

\* selection, editing and the debounce, the model of every node left as it is
Next ==
    \/ \E n \in Nodes : SelectNode(n)
    \/ Deselect
    \/ \E n \in Nodes : SwitchNode(n)
    \/ \E v \in TemperatureValues : SliderEdit("llm_info.temperature", v)
    \/ \E v \in MessageValues : EditField(v)
    \/ FireTimer
    \/ \E i \in 1..MaxOrphans : FireOrphan(i)
    \/ Tick

Spec == Init /\ [][Next]_vars

\* one sidebar, mounted once, with the model select
NextModel ==
    \/ \E n \in Nodes : SelectNode(n)
    \/ \E v \in TemperatureValues : SliderEdit("llm_info.temperature", v)
    \/ \E v \in MaxTokensValues : SliderEdit("llm_info.max_tokens", v)
    \/ \E v \in MessageValues : EditField(v)
    \/ \E m \in ModelIds : ChangeModel(m)
    \/ FireTimer
    \/ Tick

SpecModel == InitModel /\ [][NextModel]_vars

\* ------------------------------------------------------ schema translators
\* the sequences of up to MaxFields entries under distinct names
Objects(names, values) ==
    {kv \in UNION {[1..n -> names \X values] : n \in 0..MaxFields} :
        \A i, j \in DOMAIN kv : kv[i][1] = kv[j][1] => i = j}

\* the field names and types of the mappings expand is given
FieldNames == {"foo", "bar", "", "__proto__"}
FieldTypes == {JStr("string"), JStr("number"), JStr("")}
SchemaInputs == {Null} \cup {Mapping(kv) : kv \in Objects(FieldNames, FieldTypes)}

\* the entries of the properties maps simplify is given
PropertyNames == {"foo", "bar", "__proto__"}
PropertyValues ==
    {JObj(<< <<"type", JStr("string")>> >>),
     JObj(<< <<"title", JStr("x")>>, <<"type", JStr("number")>> >>),
     JObj(<< >>), JNull, JStr("string")}

\* the documents: with a properties map, without one, and not objects
Documents ==
    {JObj(<< <<"properties", JObj(kv)>> >>) : kv \in Objects(PropertyNames, PropertyValues)}
    \cup {JObj(<< >>), JNull, JNum("5"), JStr("properties"), JArr(<< >>),
          JObj(<< <<"properties", JNull>> >>),
          JObj(<< <<"properties", JStr("foo")>> >>),
          JObj(<< <<"properties", JArr(<<JObj(<< <<"type", JStr("string")>> >>)>>)>> >>)}

\* a text with a backslash before every quote
RECURSIVE Escaped(_)
Escaped(s) ==
    IF s = << >> THEN << >>
    ELSE (IF s[1] = Quote THEN <<Backslash, Quote>> ELSE <<s[1]>>)
         \o Escaped(SubSeq(s, 2, Len(s)))

\* the texts: every document on one line, indented, and with its quotes
\* escaped; those texts cut short or continued, which no parse accepts;
\* and texts that are no JSON at all
TextInputs ==
    LET written == {Stringify(d, 0, FALSE) : d \in Documents}
    IN  written
        \cup {Stringify(d, 0, TRUE) : d \in Documents}
        \cup {Escaped(t) : t \in written}
        \cup {SubSeq(t, 1, Len(t) - 1) : t \in written}
        \cup {Escaped(t) \o <<"}">> : t \in written}
        \cup {<< >>, <<" ">>, <<"hello">>, <<Backslash>>, <<"{", Quote, "foo", "}">>}

InitTranslate ==
    /\ nodeConfigs = [n \in Nodes |-> DefaultConfig]
    /\ Rest
    /\ nodes = <<FlowNode("n1"), FlowNode("n2")>>
    /\ edges = << >>
    /\ heap = RegistryHeap
    /\ created = << >>
    /\ uncommitted = {}
    /\ crashed = FALSE
    /\ \/ \E m \in SchemaInputs : call = [NoCall EXCEPT !.schema = m]
       \/ \E t \in TextInputs : call = [NoCall EXCEPT !.text = t]

sidebar == <<nodeConfigs, selected, currentNodeConfig, pending, orphans,
             lastEvent, dispatched, burst, showTitleError, incomingSchema,
             fewShotIndex>>

\* generateJsonSchemaFromSchema(schema)
Expand ==
    /\ call.fn = "none"
    /\ call' = [call EXCEPT !.fn = "expand",
                            !.out = generateJsonSchemaFromSchema(call.schema)]
    /\ UNCHANGED <<sidebar, nodes, edges, heap, created, uncommitted, crashed>>

\* extractSchemaFromJsonSchema(jsonSchema)
Simplify ==
    /\ call.fn = "none"
    /\ call' = [call EXCEPT !.fn = "simplify",
                            !.out = extractSchemaFromJsonSchema(call.text)]
    /\ UNCHANGED <<sidebar, nodes, edges, heap, created, uncommitted, crashed>>

NextTranslate ==
    \/ Expand
    \/ Simplify

SpecTranslate == InitTranslate /\ [][NextTranslate]_vars

\* ------------------------------------------------------------ node factory
InitFactory ==
    /\ nodeConfigs = [n \in Nodes |-> DefaultConfig]
    /\ Rest
    /\ Apart

\* the id of the next node: the caller never gives an id twice
NextId == "node_" \o ToString(Len(created) + 1)

\* a call of createNode
CreateNode(type, id, parentId) ==
    /\ Len(created) < MaxCreated
    /\ id = NextId
    /\ LET made == createNode(heap, type, id, [x |-> 0, y |-> 0], parentId)
       IN  /\ heap' = made.heap
           /\ created' = Append(created, made.result)
    /\ lastEvent' = Event("createNode", id, "", Unset, type, NoBefore)
    /\ UNCHANGED <<nodeConfigs, selected, currentNodeConfig, pending, orphans,
                    dispatched, burst, showTitleError, incomingSchema, nodes, edges,
                    call, uncommitted, crashed, fewShotIndex>>

\* the caller changes a property, at any depth, of the i-th config returned
MutateConfig(i, a, k) ==
    /\ i \in DOMAIN created
    /\ ~created[i].null
    /\ a \in Reachable(heap, created[i].config)
    /\ k \in DOMAIN heap[a]
    /\ heap[a][k][2].ref = 0
    /\ heap' = [heap EXCEPT ![a][k] = <<heap[a][k][1], Prim("changed")>>]
    /\ lastEvent' = Event("mutate", created[i].id, heap[a][k][1], i, "", NoBefore)
    /\ UNCHANGED <<nodeConfigs, selected, currentNodeConfig, pending, orphans,
                    dispatched, burst, showTitleError, incomingSchema, nodes, edges,
                    call, created, uncommitted, crashed, fewShotIndex>>

NextFactory ==
    \/ \E type \in TypeNames, parentId \in ParentIds :
          CreateNode(type, NextId, parentId)
    \/ \E i \in DOMAIN created, a \in DOMAIN heap :
          \E k \in DOMAIN heap[a] : MutateConfig(i, a, k)

SpecFactory == InitFactory /\ [][NextFactory]_vars

\* ------------------------------------------------------ upstream collector
\* the nodes of the graphs
GraphNodes == Nodes \cup {"n3"}

Titled(title, schema) ==
    [DefaultConfig EXCEPT !.title = title, !.output_schema = schema]

\* the configs of the graphs: with and without a title, with and without an
\* output_schema
GraphConfigs ==
    {[n \in GraphNodes |-> IF n = "n1" THEN c1 ELSE IF n = "n2" THEN c2 ELSE DefaultConfig] :
        c1 \in {Titled("A", << <<"x", JStr("string")>> >>),
                Titled("", << <<"x", JStr("string")>> >>),
                Titled("A", << >>)},
        c2 \in {Titled("B", << <<"y", JStr("number")>> >>),
                Titled("", << <<"y", JStr("number")>>, <<"x", JStr("string")>> >>)}}

\* up to MaxEdges edges, from any node into the second or the third
GraphEdges ==
    UNION {[1..n -> [source : GraphNodes, target : {"n2", "n3"}]] : n \in 0..MaxEdges}

InitCollect ==
    /\ nodeConfigs \in GraphConfigs
    /\ Rest
    /\ nodes \in {<<FlowNode("n1"), FlowNode("n2"), FlowNode("n3")>>,
                 <<FlowNode("n1"), FlowNode("n3")>>}
    /\ edges \in GraphEdges
    /\ call = NoCall
    /\ heap = RegistryHeap
    /\ created = << >>
    /\ uncommitted = {}
    /\ crashed = FALSE

\* the sidebar opened, moved to another node and closed over a graph
NextCollect ==
    \/ \E n \in GraphNodes : SelectNode(n)
    \/ \E n \in GraphNodes : SwitchNode(n)
    \/ Deselect

SpecCollect == InitCollect /\ [][NextCollect]_vars

\* ------------------------------------------------- upstream list and store
\* a comparator that tells two nodes apart by their position too
nodeComparatorStrict(prevNode, nextNode) == prevNode = nextNode

\* isEqual of the two nodes without their position (and measured)
nodeComparator(prevNode, nextNode) ==
    [prevNode EXCEPT !.position = 0] = [nextNode EXCEPT !.position = 0]

nodesComparator(prevNodes, nextNodes) ==
    /\ Len(prevNodes) = Len(nextNodes)
    /\ \A index \in DOMAIN prevNodes : nodeComparator(prevNodes[index], nextNodes[index])

\* the edges of the graphs the store changes: into the second node, from the
\* first or the third
UpstreamEdge == [source : {"n1", "n3"}, target : {"n2"}]

\* the titles and output schemas another part of the application commits
UpstreamConfigs ==
    {Titled("A", << <<"x", JStr("string")>> >>),
     Titled("", << <<"x", JStr("string")>> >>),
     Titled("A", << <<"z", JStr("number")>> >>)}

InitUpstream ==
    /\ nodeConfigs = [n \in GraphNodes |->
                         IF n = "n1" THEN Titled("A", << <<"x", JStr("string")>> >>)
                         ELSE DefaultConfig]
    /\ Rest
    /\ nodes = <<FlowNode("n1"), FlowNode("n2"), FlowNode("n3")>>
    /\ edges = << >>
    /\ call = NoCall
    /\ heap = RegistryHeap
    /\ created = << >>
    /\ uncommitted = {}
    /\ crashed = FALSE

\* the sidebar after the store has changed: the selectors hand over the new
\* nodes unless nodesComparator finds them equal, the new edges unless
\* isEqual does, and the effect on [nodeID, nodes, edges] collects again when
\* one of them was handed over; the load effect on [.., node, .., nodeConfig]
\* loads the selected node's config again when its node or its config changed
StoreChanged(what) ==
    /\ incomingSchema' =
           IF selected # NoNode /\ (~nodesComparator(nodes, nodes') \/ edges' # edges)
           THEN collectIncomingOver(selected, nodes', edges', nodeConfigs')
           ELSE incomingSchema
    /\ currentNodeConfig' =
           IF selected # NoNode
              /\ \/ nodeConfigs'[selected] # nodeConfigs[selected]
                 \/ \E i \in DOMAIN nodes : nodes[i].id = selected /\ nodes'[i] # nodes[i]
           THEN LoadConfig(selected, nodeConfigs'[selected])
           ELSE currentNodeConfig
    /\ lastEvent' = Event("store", selected, what, Unset, "",
                          IF selected = NoNode THEN NoBefore ELSE Before)
    /\ dispatched' = << >>
    /\ burst' = Interrupted
    /\ UNCHANGED <<selected, pending, orphans, showTitleError, fewShotIndex,
                    call, heap, created, uncommitted, crashed>>

\* a node is dragged on the canvas
MoveNode(i, position) ==
    /\ i \in DOMAIN nodes
    /\ nodes[i].position # position
    /\ nodes' = [nodes EXCEPT ![i].position = position]
    /\ UNCHANGED <<edges, nodeConfigs>>
    /\ StoreChanged("position")

\* a node is drawn with something else
RedrawNode(i, data) ==
    /\ i \in DOMAIN nodes
    /\ nodes[i].data # data
    /\ nodes' = [nodes EXCEPT ![i].data = data]
    /\ UNCHANGED <<edges, nodeConfigs>>
    /\ StoreChanged("data")

Connect(edge) ==
    /\ Len(edges) < MaxEdges
    /\ edges' = Append(edges, edge)
    /\ UNCHANGED <<nodes, nodeConfigs>>
    /\ StoreChanged("edges")

Disconnect(i) ==
    /\ i \in DOMAIN edges
    /\ edges' = [j \in 1..(Len(edges) - 1) |-> IF j < i THEN edges[j] ELSE edges[j + 1]]
    /\ UNCHANGED <<nodes, nodeConfigs>>
    /\ StoreChanged("edges")

\* the config of a node is committed by another part of the application
CommitElsewhere(n, config) ==
    /\ nodeConfigs[n] # config
    /\ nodeConfigs' = [nodeConfigs EXCEPT ![n] = config]
    /\ UNCHANGED <<nodes, edges>>
    /\ StoreChanged("nodeConfigs")

NextUpstream ==
    \/ \E n \in {"n2", "n3"} : SelectNode(n)
    \/ \E n \in {"n2", "n3"} : SwitchNode(n)
    \/ Deselect
    \/ MoveNode(1, 1)
    \/ MoveNode(1, 0)
    \/ RedrawNode(1, 1)
    \/ RedrawNode(1, 0)
    \/ \E edge \in UpstreamEdge : Connect(edge)
    \/ \E i \in 1..MaxEdges : Disconnect(i)
    \/ \E config \in UpstreamConfigs : CommitElsewhere("n1", config)

SpecUpstream == InitUpstream /\ [][NextUpstream]_vars

\* ----------------------------------------------- schema editors and title
\* the mappings the schema editor hands over and the texts the code editor
\* hands over
SchemaEdits ==
    {<< >>,
     << <<"foo", JStr("string")>> >>,
     << <<"foo", JStr("")>> >>,
     << <<"foo", JStr("number")>>, <<"__proto__", JStr("string")>> >>}

TextEdits ==
    {<<" ">>, <<"hello">>,
     Stringify(JObj(<< <<"properties",
                         JObj(<< <<"bar", JObj(<< <<"type", JStr("number")>> >>)>>,
                                 <<"foo", JObj(<< >>)>> >>)>> >>),
               0, FALSE)}

\* the titles typed into the title input, and those of them that contain
\* white space
TitleInputs == {"my node", "my_node"}
WithWhitespace == {"my node"}

\* convertToPythonVariableName: white space becomes an underscore
convertToPythonVariableName(value) ==
    IF value = "my node" THEN "my_node" ELSE value

\* the updateNodeTitle reducer: the title of the node's config
updateNodeTitle(nodeId, newTitle) ==
    [nodeConfigs EXCEPT ![nodeId].title = newTitle]

\* modelConstraints?.supports_JSON_output ?? true
SupportsJsonOutput ==
    LET modelConstraints ==
            getModelConstraints(NodeType(selected), currentNodeConfig.llm_info.model)
    IN  IF modelConstraints = NullConstraints THEN TRUE
        ELSE modelConstraints.supports_JSON_output

\* one commit of a whole config by a handler of the sidebar
CommitNow(updatedModel) ==
    /\ nodeConfigs' = updateNodeConfigOnly(selected, updatedModel)
    /\ currentNodeConfig' = AfterDispatch(selected, updatedModel, updatedModel)
    /\ dispatched' = <<Commit(selected, updatedModel)>>
    /\ burst' = Interrupted
    /\ uncommitted' = uncommitted \ {selected}
    /\ UNCHANGED fewShotIndex
    /\ UNCHANGED <<selected, pending, orphans, showTitleError, incomingSchema,
                    nodes, edges, heap, created, crashed>>

\* an output_schema editor that clears the other view when it cannot
\* regenerate it
UpdateOutputSchemaClearing(newValue) ==
    /\ selected # NoNode
    /\ "output_schema" \in SchemaFields(NodeType(selected))
    /\ SupportsJsonOutput
    /\ LET jsonSchema == generateJsonSchemaFromSchema(Mapping(newValue))
       IN  /\ call' = IF Len(Keys(newValue)) = 0
                      THEN [NoCall EXCEPT !.schema = Mapping(newValue)]
                      ELSE [fn |-> "expand", schema |-> Mapping(newValue),
                            text |-> << >>, out |-> jsonSchema]
           /\ CommitNow([currentNodeConfig EXCEPT
                            !.output_schema = newValue,
                            !.output_json_schema = jsonSchema.text])
    /\ lastEvent' = Event("updateOutputSchema", selected, "output_schema", Unset, "", Before)

\* the onChange of the output_schema editor
UpdateOutputSchema(newValue) ==
    /\ selected # NoNode
    /\ "output_schema" \in SchemaFields(NodeType(selected))
    /\ SupportsJsonOutput
    /\ LET jsonSchema == generateJsonSchemaFromSchema(Mapping(newValue))
       IN  IF Len(Keys(newValue)) = 0
           THEN /\ CommitNow([currentNodeConfig EXCEPT !.output_schema = newValue])
                /\ call' = [NoCall EXCEPT !.schema = Mapping(newValue)]
           ELSE /\ call' = [fn |-> "expand", schema |-> Mapping(newValue),
                            text |-> << >>, out |-> jsonSchema]
                /\ IF ~jsonSchema.null
                   THEN CommitNow([currentNodeConfig EXCEPT
                                      !.output_schema = newValue,
                                      !.output_json_schema = jsonSchema.text])
                   ELSE CommitNow([currentNodeConfig EXCEPT !.output_schema = newValue])
    /\ lastEvent' = Event("updateOutputSchema", selected, "output_schema", Unset, "", Before)

\* the onChange of the output_json_schema editor
UpdateOutputJsonSchema(value) ==
    /\ selected # NoNode
    /\ "output_json_schema" \in SchemaFields(NodeType(selected))
    /\ SupportsJsonOutput
    /\ LET simpleSchema == extractSchemaFromJsonSchema(value)
       IN  IF Trim(value) = << >>
           THEN /\ CommitNow([currentNodeConfig EXCEPT !.output_json_schema = value])
                /\ call' = [NoCall EXCEPT !.text = value]
           ELSE /\ call' = [fn |-> "simplify", schema |-> Null, text |-> value,
                            out |-> simpleSchema]
                /\ IF ~simpleSchema.null
                   THEN CommitNow([currentNodeConfig EXCEPT
                                      !.output_json_schema = value,
                                      !.output_schema = simpleSchema.kv])
                   ELSE CommitNow([currentNodeConfig EXCEPT !.output_json_schema = value])
    /\ lastEvent' = Event("updateOutputJsonSchema", selected, "output_json_schema",
                          Unset, "", Before)

\* a title handler that goes through handleInputChange('title', validTitle)
EditTitleAsField(value) ==
    /\ selected # NoNode
    /\ CommitNow([currentNodeConfig EXCEPT !.title = convertToPythonVariableName(value)])
    /\ lastEvent' = Event("editTitle", selected, "title", Unset, value, Before)
    /\ UNCHANGED fewShotIndex
    /\ UNCHANGED <<selected, pending, orphans, showTitleError, incomingSchema,
                    elsewhere>>

\* handleTitleChangeComplete(value)
EditTitle(value) ==
    /\ selected # NoNode
    /\ LET validTitle == convertToPythonVariableName(value)
       IN  /\ nodeConfigs' = updateNodeTitle(selected, validTitle)
           /\ currentNodeConfig' =
                  AfterDispatch(selected, nodeConfigs'[selected], currentNodeConfig)
           /\ dispatched' = <<[type |-> "updateNodeTitle", id |-> selected,
                               newTitle |-> validTitle]>>
    /\ lastEvent' = Event("editTitle", selected, "title", Unset, value, Before)
    /\ burst' = Interrupted
    /\ uncommitted' = uncommitted \ {selected}
    /\ UNCHANGED fewShotIndex
    /\ UNCHANGED <<selected, pending, orphans, showTitleError, incomingSchema,
                    elsewhere>>

\* a node carries the title createNode gave it
InitEdit ==
    /\ nodeConfigs = [n \in Nodes |-> [DefaultConfig EXCEPT !.title = n]]
    /\ Rest
    /\ Apart

\* one sidebar, mounted once, with the schema editors and a slider
NextSchema ==
    \/ \E n \in Nodes : SelectNode(n)
    \/ SliderEdit("llm_info.temperature", 15)
    \/ \E m \in SchemaEdits : UpdateOutputSchema(m)
    \/ \E t \in TextEdits : UpdateOutputJsonSchema(t)
    \/ FireTimer
    \/ Tick

SpecSchema == InitEdit /\ [][NextSchema]_vars

\* one sidebar, mounted once, with the title input, a text field and a slider
NextTitle ==
    \/ \E n \in Nodes : SelectNode(n)
    \/ \E v \in TemperatureValues : SliderEdit("llm_info.temperature", v)
    \/ \E v \in MessageValues : EditField(v)
    \/ \E v \in TitleInputs : EditTitle(v)
    \/ FireTimer
    \/ Tick

SpecTitle == InitEdit /\ [][NextTitle]_vars

\* ------------------------------------------------------ few-shot examples
\* { input: '', output: '' }
EmptyExample == [input |-> "", output |-> ""]

\* the lists a node holds when the sidebar opens
ExampleLists ==
    {<< >>,
     <<[input |-> "a", output |-> "1"]>>,
     <<[input |-> "a", output |-> "1"], [input |-> "b", output |-> "2"]>>}

\* a splice that removes the last element whatever the index
SplicedLast(examples, index) == SubSeq(examples, 1, Len(examples) - 1)

\* updatedExamples.splice(index, 1), the index counted from 0
Spliced(examples, index) ==
    IF index >= Len(examples) THEN examples
    ELSE [j \in 1..(Len(examples) - 1) |->
            IF j <= index THEN examples[j] ELSE examples[j + 1]]

\* handleAddNewExample
AddExample ==
    /\ selected # NoNode
    /\ "user_message" \in SchemaFields(NodeType(selected))
    /\ fewShotIndex = Unset
    /\ Len(currentNodeConfig.few_shot_examples) < MaxExamples
    /\ LET updatedExamples == Append(currentNodeConfig.few_shot_examples, EmptyExample)
           updatedModel == [currentNodeConfig EXCEPT !.few_shot_examples = updatedExamples]
       IN  /\ nodeConfigs' = updateNodeConfigOnly(selected, updatedModel)
           /\ currentNodeConfig' = AfterDispatch(selected, updatedModel, updatedModel)
           /\ dispatched' = <<Commit(selected, updatedModel)>>
           /\ fewShotIndex' = Len(updatedExamples) - 1
    /\ lastEvent' = Event("addExample", selected, "few_shot_examples", Unset, "", Before)
    /\ burst' = Interrupted
    /\ uncommitted' = uncommitted \ {selected}
    /\ UNCHANGED <<selected, pending, orphans, showTitleError, incomingSchema,
                    elsewhere>>

\* handleDeleteExample(index), from the button of an example of the list
\* rendered from nodeConfig
DeleteExample(index) ==
    /\ selected # NoNode
    /\ "user_message" \in SchemaFields(NodeType(selected))
    /\ fewShotIndex = Unset
    /\ index \in 0..(Len(nodeConfigs[selected].few_shot_examples) - 1)
    /\ CommitNow([currentNodeConfig EXCEPT
                     !.few_shot_examples = Spliced(@, index)])
    /\ call' = call
    /\ lastEvent' = Event("deleteExample", selected, "few_shot_examples", index, "", Before)

\* setFewShotIndex(index): the editor of an example is opened
OpenExample(index) ==
    /\ selected # NoNode
    /\ "user_message" \in SchemaFields(NodeType(selected))
    /\ fewShotIndex = Unset
    /\ index \in 0..(Len(nodeConfigs[selected].few_shot_examples) - 1)
    /\ fewShotIndex' = index
    /\ lastEvent' = Event("openExample", selected, "few_shot_examples", index, "", NoBefore)
    /\ dispatched' = << >>
    /\ burst' = Interrupted
    /\ UNCHANGED <<nodeConfigs, selected, currentNodeConfig, pending, orphans,
                    showTitleError, incomingSchema, uncommitted, elsewhere>>

\* onSave and onDiscard of the editor: setFewShotIndex(null)
CloseExample ==
    /\ selected # NoNode
    /\ fewShotIndex # Unset
    /\ fewShotIndex' = Unset
    /\ lastEvent' = Event("closeExample", selected, "few_shot_examples", fewShotIndex, "", NoBefore)
    /\ dispatched' = << >>
    /\ burst' = Interrupted
    /\ UNCHANGED <<nodeConfigs, selected, currentNodeConfig, pending, orphans,
                    showTitleError, incomingSchema, uncommitted, elsewhere>>

InitExamples ==
    /\ nodeConfigs \in [Nodes -> {[DefaultConfig EXCEPT !.few_shot_examples = l] :
                                     l \in ExampleLists}]
    /\ Rest
    /\ Apart

\* one sidebar, mounted once, with the examples and a slider
NextExamples ==
    \/ \E n \in Nodes : SelectNode(n)
    \/ AddExample
    \/ \E i \in 0..(MaxExamples - 1) : DeleteExample(i)
    \/ \E i \in 0..(MaxExamples - 1) : OpenExample(i)
    \/ CloseExample
    \/ SliderEdit("llm_info.temperature", 15)
    \/ FireTimer
    \/ Tick

SpecExamples == InitExamples /\ [][NextExamples]_vars

\* ------------------------------------------- the schema editors' gate
\* what a node may hold when the sidebar opens: a model that supports JSON
\* output or one that does not, with an output_schema or without
GateConfigs ==
    {[DefaultConfig EXCEPT !.llm_info.model = m, !.output_schema = schema] :
        m \in {"gpt-4o", "o1"},
        schema \in {<< >>, << <<"foo", JStr("string")>> >>}}

InitGate ==
    /\ nodeConfigs \in [Nodes -> GateConfigs]
    /\ Rest
    /\ Apart

\* one sidebar, mounted once, with the model select, the schema editors and
\* a slider
NextGate ==
    \/ \E n \in Nodes : SelectNode(n)
    \/ \E m \in {"gpt-4o", "o1", "ollama/llama3"} : ChangeModel(m)
    \/ \E m \in {<< >>, << <<"bar", JStr("number")>> >>} : UpdateOutputSchema(m)
    \/ \E t \in {<<"hello">>} : UpdateOutputJsonSchema(t)
    \/ SliderEdit("llm_info.temperature", 15)
    \/ FireTimer
    \/ Tick

SpecGate == InitGate /\ [][NextGate]_vars

\* ----------------------------------------------------------- nested fields
\* In this section a config is a JavaScript object, and a path the sequence
\* of the keys a dotted path names.

\* nodeSchema.config of the type: a slider at the top, and under llm_info a
\* slider, a text, a switch and an object that holds a slider
NestedSchema ==
    JObj(<< <<"max_retries", JNum("0")>>,
            <<"llm_info",
              JObj(<< <<"temperature", JNum("0")>>,
                      <<"api_base", JStr("")>>,
                      <<"stream", JBool("false")>>,
                      <<"advanced", JObj(<< <<"top_p", JNum("0")>> >>)>> >>)>> >>)

\* the config of the node when the sidebar opens
NestedConfig ==
    JObj(<< <<"max_retries", JNum("0")>>,
            <<"llm_info",
              JObj(<< <<"model", JStr("ollama/llama3")>>,
                      <<"temperature", JNum("0")>>,
                      <<"api_base", JStr("")>>,
                      <<"stream", JBool("false")>>,
                      <<"advanced", JObj(<< <<"top_p", JNum("0")>> >>)>> >>)>> >>)

\* the new value an affordance hands over, by the type of the field
NewValueOf(field) ==
    IF field.t = "string" THEN JStr("x")
    ELSE IF field.t = "number" THEN JNum("5")
    ELSE JBool("true")

\* getFieldMetadata(fullPath): every number field of the schema has metadata
HasMetadata(fullPath) == TRUE

\* the value at a path
RECURSIVE GetIn(_, _)
GetIn(v, path) ==
    IF path = << >> THEN v
    ELSE IF v.t # "object" THEN JUndefined
    ELSE GetIn(GetOwn(v.kv, path[1]), Tail(path))

\* lodash set(obj, path, value): the objects the path misses are created
RECURSIVE LodashSet(_, _, _)
LodashSet(v, path, value) ==
    IF path = << >> THEN value
    ELSE LET own == IF v.t = "object" THEN v.kv ELSE << >>
         IN  JObj(DefineOwn(own, path[1],
                            LodashSet(GetOwn(own, path[1]), Tail(path), value)))

\* path.split('.').slice(-2), and the key alone when the first of the two is
\* 'config'
FinalPath(path) ==
    LET lastTwoDots == SubSeq(path, Len(path) - 1, Len(path))
    IN  IF lastTwoDots[1] = "config" THEN <<lastTwoDots[2]>> ELSE lastTwoDots

\* the path the slider of a field calls handleInputChange with
SliderPath(parentPath, key) == FinalPath(parentPath \o <<key>>)

\* renderField(key, field, value, parentPath): the affordances rendered, each
\* with the path its value is read from (shown), the path its onChange
\* calls handleInputChange with, and isSlider
RECURSIVE renderField(_, _, _, _)
renderField(key, field, parentPath, config) ==
    LET fullPath == parentPath \o <<key>>
        shown == SubSeq(fullPath, 3, Len(fullPath))
        modelValue == GetIn(config, <<"llm_info", "model">>)
    IN  IF key = "api_base"
        THEN IF modelValue.t = "string" /\ modelValue.s = "ollama/llama3"
             THEN {[shown |-> shown, path |-> <<key>>, slider |-> FALSE, field |-> field]}
             ELSE {}
        ELSE IF field.t = "string"
        THEN {[shown |-> shown, path |-> <<key>>, slider |-> FALSE, field |-> field]}
        ELSE IF field.t = "number"
        THEN IF HasMetadata(fullPath)
             THEN {[shown |-> shown, path |-> SliderPath(parentPath, key),
                    slider |-> TRUE, field |-> field]}
             ELSE {[shown |-> shown, path |-> <<key>>, slider |-> FALSE, field |-> field]}
        ELSE IF field.t = "boolean"
        THEN {[shown |-> shown, path |-> <<key>>, slider |-> FALSE, field |-> field]}
        ELSE IF field.t = "object"
        THEN UNION {renderField(field.kv[i][1], field.kv[i][2], fullPath, config) :
                       i \in DOMAIN field.kv}
        ELSE {}

\* renderConfigFields: the fields of nodeSchema.config, under the parent path
\* `${nodeType}.config`
renderConfigFields(config) ==
    UNION {renderField(NestedSchema.kv[i][1], NestedSchema.kv[i][2],
                       <<NodeType(selected), "config">>, config) :
              i \in DOMAIN NestedSchema.kv}

\* the updatedModel of handleInputChange(key, value)
UpdatedModel(config, path, value) ==
    IF Len(path) > 1 THEN LodashSet(config, path, value)
    ELSE JObj(DefineOwn(config.kv, path[1], value))

\* the sidebar is mounted for a node of a type without model constraints
InitNested ==
    /\ nodeConfigs = [n \in Nodes |-> NestedConfig]
    /\ selected = "n2"
    /\ currentNodeConfig = NestedConfig
    /\ pending = NoTimer
    /\ orphans = << >>
    /\ lastEvent = Event("init", NoNode, "", Unset, "", NoBefore)
    /\ dispatched = << >>
    /\ burst = NoBurst
    /\ showTitleError = FALSE
    /\ incomingSchema = << >>
    /\ fewShotIndex = Unset
    /\ Apart

\* the onChange of an affordance: handleInputChange(path, value, isSlider)
NestedEdit(affordance) ==
    /\ affordance \in renderConfigFields(currentNodeConfig)
    /\ LET value == NewValueOf(affordance.field)
           updatedModel == UpdatedModel(currentNodeConfig, affordance.path, value)
       IN  /\ lastEvent' = Event("nestedEdit", selected, affordance.shown, Unset, value, Before)
           /\ IF affordance.slider
              THEN /\ currentNodeConfig' = updatedModel
                   /\ pending' = debouncedDispatch(selected, updatedModel)
                   /\ burst' = BurstAfterSlider(updatedModel, 0)
                   /\ dispatched' = << >>
                   /\ UNCHANGED <<nodeConfigs, uncommitted>>
              ELSE /\ nodeConfigs' = updateNodeConfigOnly(selected, updatedModel)
                   /\ currentNodeConfig' = updatedModel
                   /\ dispatched' = <<Commit(selected, updatedModel)>>
                   /\ burst' = Interrupted
                   /\ uncommitted' = uncommitted \ {selected}
                   /\ UNCHANGED pending
    /\ UNCHANGED <<selected, orphans, showTitleError, incomingSchema, fewShotIndex,
                    elsewhere>>

\* the affordances the schema can render
AllAffordances ==
    UNION {renderConfigFields(config) : config \in {NestedConfig}}

NextNested ==
    \/ \E affordance \in AllAffordances : NestedEdit(affordance)
    \/ FireTimer
    \/ Tick

SpecNested == InitNested /\ [][NextNested]_vars

\* -------------------------------------------------------------------- load
\* what a node may hold when the sidebar opens: nothing, the default
\* configuration, or a configuration with another model
LoadConfigs ==
    {EmptyConfig, DefaultConfig,
     [DefaultConfig EXCEPT !.llm_info.model = "o1", !.system_message = "hi"]}

\* a node of the empty config may have no entry in state.flow.nodeConfigs
InitLoad ==
    /\ nodeConfigs \in [Nodes -> LoadConfigs]
    /\ Rest
    /\ nodes = <<FlowNode("n1"), FlowNode("n2")>>
    /\ edges = << >>
    /\ call = NoCall
    /\ heap = RegistryHeap
    /\ created = << >>
    /\ uncommitted \in SUBSET {n \in Nodes : nodeConfigs[n] = EmptyConfig}
    /\ crashed = FALSE

\* the sidebar opened, moved to another node and closed, and a text edited
NextLoad ==
    \/ \E n \in Nodes : SelectNode(n)
    \/ \E n \in Nodes : SwitchNode(n)
    \/ Deselect
    \/ \E v \in MessageValues : EditField(v)

SpecLoad == InitLoad /\ [][NextLoad]_vars

\* ------------------------------------------------------------------- mount
\* the output schemas a node holds when the sidebar is mounted: none, one and
\* two fields, a field without a type, a field without a name
MountSchemas ==
    {<< >>,
     << <<"x", JStr("string")>> >>,
     << <<"x", JStr("string")>>, <<"y", JStr("number")>> >>,
     << <<"x", JStr("")>> >>,
     << <<"", JStr("string")>> >>}

\* with and without an output_json_schema, with and without a model
MountConfigs ==
    {[DefaultConfig EXCEPT !.output_schema = schema,
                           !.output_json_schema = text,
                           !.llm_info.model = model] :
        schema \in MountSchemas, text \in {<< >>, <<"hello">>},
        model \in {DefaultModel, NoModel}}

InitMount ==
    /\ nodeConfigs \in [Nodes -> MountConfigs]
    /\ Rest
    /\ Apart

\* the sidebar mounted, moved to another node and unmounted
NextMount ==
    \/ \E n \in Nodes : SelectNode(n)
    \/ \E n \in Nodes : SwitchNode(n)
    \/ Deselect

SpecMount == InitMount /\ [][NextMount]_vars

\* ------------------------------------------------------------------ claims

\* C1: a burst of slider edits of the selected node, each made before the
\* debounce armed by the one before it expired and nothing else happening in
\* between, commits nothing while it lasts and ends in exactly one commit,
\* made when the debounce expires after the last call, that carries the
\* config of the last call.
C1_BurstCommitsOnce ==
    /\ (burst.pure /\ ~burst.done) =>
          /\ burst.commits = 0
          /\ pending.armed
          /\ burst.idle + pending.remaining = DebounceWait
    /\ (lastEvent.op = "fire" /\ burst.pure) =>
          /\ burst.commits = 1
          /\ dispatched = <<Commit(burst.id, burst.last)>>
          /\ nodeConfigs[burst.id] = burst.last
          /\ ~pending.armed

\* a burst of at least two calls, spread over more than one window, expired
C1_Witness ==
    /\ lastEvent.op = "fire"
    /\ burst.pure
    /\ burst.calls = 2
    /\ burst.lag > DebounceWait
    /\ burst.commits = 1

\* C2: an edit that is not a slider's issues exactly one commit in its own
\* turn, to the selected node, of the whole new working config: the working
\* config it found with the edited field replaced; working and committed
\* config of the node are then equal, and the debounce is left alone.
C2_EditCommitsSameTurn ==
    [][lastEvent'.op = "edit" =>
          LET updated == [currentNodeConfig EXCEPT !.system_message = lastEvent'.text]
          IN  /\ dispatched' = <<Commit(selected, updated)>>
              /\ nodeConfigs' = [nodeConfigs EXCEPT ![selected] = updated]
              /\ currentNodeConfig' = nodeConfigs'[selected]
              /\ selected' = selected
              /\ pending' = pending]_vars

\* a text edit committed while a slider commit was pending
C2_Witness ==
    /\ lastEvent.op = "edit"
    /\ pending.armed
    /\ Len(dispatched) = 1
    /\ nodeConfigs[selected].system_message = "hi"
    /\ nodeConfigs[selected] = currentNodeConfig

\* C3 as claimed: every slider edit is in the store no later than 300 ms
\* after it was made, whatever slider edits follow it: while the edits of a
\* burst are uncommitted, its first edit is at most 300 ms old.
C3_Original ==
    (burst.pure /\ ~burst.done) => burst.lag <= DebounceWait

\* C3 as amended: the one debounce of a sidebar holds the node and the config
\* of the most recent slider edit made through it and expires 300 ms after
\* that edit, committing that config; a timer never has more than 300 ms to
\* run; every other edit is in the store at the end of its own turn.
C3_Amended ==
    /\ \A t \in Timers : 0 <= t.remaining /\ t.remaining <= DebounceWait
    /\ pending.armed =>
          /\ pending.id = burst.id
          /\ pending.data = burst.last
          /\ burst.idle + pending.remaining = DebounceWait
    /\ lastEvent.op = "fire" =>
          /\ burst.idle = DebounceWait
          /\ dispatched = <<Commit(burst.id, burst.last)>>
          /\ nodeConfigs[burst.id] = burst.last
    /\ lastEvent.op = "edit" => nodeConfigs[selected] = currentNodeConfig

\* the commit of a burst whose first edit waited longer than one window
C3_Witness ==
    /\ lastEvent.op = "fire"
    /\ burst.lag > DebounceWait
    /\ burst.idle = DebounceWait
    /\ nodeConfigs[burst.id] = burst.last

\* C4: a slider edit of another node made while a debounced commit is pending
\* leaves that commit pending, with its node and its config.
C4_PerNodePending ==
    [][(pending.armed /\ lastEvent'.op = "slider" /\ lastEvent'.id # pending.id) =>
          \E t \in Timers' : t.id = pending.id /\ t.data = pending.data]_vars

\* C5: deselecting the node or switching the selection dispatches nothing and
\* leaves every pending debounce armed as it is; a slider edit arms the
\* debounce for the node it edits; and a debounce that expires writes its
\* config to the node it was armed for and to no other node.
C5_SelectionKeepsPending ==
    [][/\ lastEvent'.op \in {"deselect", "switch"} =>
             /\ nodeConfigs' = nodeConfigs
             /\ dispatched' = << >>
             /\ Timers' = Timers
             /\ Len(orphans') + (IF pending'.armed THEN 1 ELSE 0)
                  = Len(orphans) + (IF pending.armed THEN 1 ELSE 0)
       /\ lastEvent'.op = "slider" =>
             /\ pending'.id = selected
             /\ pending'.data = currentNodeConfig'
       /\ lastEvent'.op \in {"fire", "fireOrphan"} =>
             \E t \in Timers :
                /\ t.remaining = 0
                /\ dispatched' = <<Commit(t.id, t.data)>>
                /\ nodeConfigs' = [nodeConfigs EXCEPT ![t.id] = t.data]]_vars

\* a debounce expired for a node other than the one now selected
C5_Witness ==
    /\ lastEvent.op \in {"fire", "fireOrphan"}
    /\ selected # NoNode
    /\ lastEvent.id # selected
    /\ dispatched[1].id = lastEvent.id
    /\ nodeConfigs[lastEvent.id] = dispatched[1].data

\* the constraints of the model a model select chose
ChosenConstraints == getModelConstraints(NodeType(selected), lastEvent.text)

ModelChanged(constrained) ==
    /\ lastEvent.op = "changeModel"
    /\ (ChosenConstraints # NullConstraints) = constrained

InRange(x, lo, hi) == x # Unset /\ lo <= x /\ x <= hi

\* C6: a model select that chooses a model with constraints dispatches one
\* commit, to the selected node, whose one object holds the new model, a
\* temperature inside the model's range and a max_tokens of at most the
\* model's; the store then holds that object, so it never holds the new model
\* beside a temperature or max_tokens the model rules out.
C6_ModelChangeOneCommit ==
    ModelChanged(TRUE) =>
        /\ Len(dispatched) = 1
        /\ dispatched[1].id = selected
        /\ dispatched[1].data.llm_info.model = lastEvent.text
        /\ InRange(dispatched[1].data.llm_info.temperature,
                   ChosenConstraints.min_temperature, ChosenConstraints.max_temperature)
        /\ InRange(dispatched[1].data.llm_info.max_tokens,
                   1, ChosenConstraints.max_tokens)
        /\ dispatched[1].data.system_message = lastEvent.before.working.system_message
        /\ nodeConfigs[selected] = dispatched[1].data
        /\ currentNodeConfig = dispatched[1].data

\* a model select whose model rules out both the temperature and the
\* max_tokens the working config held
C6_Witness ==
    /\ ModelChanged(TRUE)
    /\ lastEvent.before.working.llm_info.temperature > ChosenConstraints.max_temperature
    /\ lastEvent.before.working.llm_info.max_tokens > ChosenConstraints.max_tokens
    /\ nodeConfigs[selected].llm_info.model = lastEvent.text
    /\ nodeConfigs[selected].llm_info.model # lastEvent.before.committed.llm_info.model

\* C7: after a model select that chooses a model with constraints the
\* committed max_tokens is at most the model's max_tokens M, and it is M when
\* the current max_tokens was above M.
C7_MaxTokensClamped ==
    ModelChanged(TRUE) =>
        /\ nodeConfigs[selected].llm_info.max_tokens <= ChosenConstraints.max_tokens
        /\ lastEvent.before.working.llm_info.max_tokens > ChosenConstraints.max_tokens
              => nodeConfigs[selected].llm_info.max_tokens = ChosenConstraints.max_tokens

\* current 8000, M = 4096 commits 4096
C7_Witness ==
    /\ ModelChanged(TRUE)
    /\ lastEvent.before.working.llm_info.max_tokens = 8000
    /\ ChosenConstraints.max_tokens = 4096
    /\ nodeConfigs[selected].llm_info.max_tokens = 4096

\* C8: after a model select that chooses a model with constraints the
\* committed temperature lies in [min_temperature, max_temperature], and when
\* the current temperature was unset it is 0.7 clamped into that range.
C8_TemperatureClamped ==
    ModelChanged(TRUE) =>
        /\ InRange(nodeConfigs[selected].llm_info.temperature,
                   ChosenConstraints.min_temperature, ChosenConstraints.max_temperature)
        /\ lastEvent.before.working.llm_info.temperature = Unset
              => nodeConfigs[selected].llm_info.temperature =
                    MinOf(MaxOf(DefaultTemperature, ChosenConstraints.min_temperature),
                          ChosenConstraints.max_temperature)

\* temperature unset, range [0, 1] commits 0.7
C8_Witness ==
    /\ ModelChanged(TRUE)
    /\ lastEvent.before.working.llm_info.temperature = Unset
    /\ ChosenConstraints.min_temperature = 0
    /\ ChosenConstraints.max_temperature = 10
    /\ nodeConfigs[selected].llm_info.temperature = DefaultTemperature

C10_Original ==
    ModelChanged(FALSE) =>
        /\ currentNodeConfig =
              [lastEvent.before.working EXCEPT !.llm_info.model = lastEvent.text]
        /\ nodeConfigs[selected] =
              [lastEvent.before.committed EXCEPT !.llm_info.model = lastEvent.text]

\* C10 as amended: a model select that chooses a model without constraints
\* changes llm_info.model and nothing else in the working config, and
\* dispatches one commit that replaces the committed config by the new
\* working config: a committed field other than the model changes exactly
\* where the working config differed from the committed one.
C10_Amended ==
    ModelChanged(FALSE) =>
        /\ currentNodeConfig =
              [lastEvent.before.working EXCEPT !.llm_info.model = lastEvent.text]
        /\ dispatched = <<Commit(selected, currentNodeConfig)>>
        /\ nodeConfigs[selected] = currentNodeConfig

\* a model without constraints chosen while a slider edit of the temperature
\* was uncommitted
C10_Witness ==
    /\ ModelChanged(FALSE)
    /\ lastEvent.before.working.llm_info.temperature
          # lastEvent.before.committed.llm_info.temperature
    /\ lastEvent.before.working.llm_info.model # lastEvent.text
    /\ nodeConfigs[selected].llm_info.temperature
          = lastEvent.before.working.llm_info.temperature

\* the entries of an object, as a set
AsMapping(kv) == {kv[i] : i \in DOMAIN kv}

\* a non-empty mapping whose names and types are non-empty strings
WellFormed(m) ==
    /\ ~m.null
    /\ m.kv # << >>
    /\ \A i \in DOMAIN m.kv :
          /\ m.kv[i][1] # ""
          /\ m.kv[i][2].t = "string"
          /\ m.kv[i][2].s # ""

\* C13: the text expand returns for a non-empty mapping whose names and types
\* are non-empty strings is taken back by simplify to the same mapping, the
\* order of its fields apart.
C13_RoundTrip ==
    (call.fn = "expand" /\ WellFormed(call.schema)) =>
        LET back == extractSchemaFromJsonSchema(call.out.text)
        IN  /\ ~call.out.null
            /\ ~back.null
            /\ AsMapping(back.kv) = AsMapping(call.schema.kv)

\* C14: expand returns null exactly for an absent or empty mapping and for a
\* mapping that holds an empty name or a falsy type; what it returns for any
\* other mapping is the text of an object-typed document whose required list
\* names every field, in order, and whose properties hold exactly the fields,
\* each with its type.
C14_ExpandNullOrDocument ==
    call.fn = "expand" =>
        LET m == call.schema
            doc == JSONparse(call.out.text)
        IN  /\ call.out.null <=>
                  \/ m.null
                  \/ m.kv = << >>
                  \/ \E i \in DOMAIN m.kv : m.kv[i][1] = "" \/ Falsy(m.kv[i][2])
            /\ ~call.out.null =>
                  /\ doc.ok
                  /\ doc.v.t = "object"
                  /\ GetOwn(doc.v.kv, "type") = JStr("object")
                  /\ GetOwn(doc.v.kv, "required") =
                        JArr([i \in DOMAIN m.kv |-> JStr(m.kv[i][1])])
                  /\ GetOwn(doc.v.kv, "properties").t = "object"
                  /\ AsMapping(GetOwn(doc.v.kv, "properties").kv) =
                        {<<e[1], JObj(<< <<"type", e[2]>> >>)>> : e \in AsMapping(m.kv)}

\* no parse accepts the text: neither the direct one nor the one of the
\* cleaned text
FailsBothParses(text) ==
    /\ ~JSONparse(Trim(text)).ok
    /\ ~JSONparse(Trim(Cleaned(text))).ok

\* C15: simplify throws nothing to its caller: whatever the text, it returns
\* a mapping with at least one field or null, and it returns null for a text
\* that neither parse accepts.
C15_SimplifyNeverRaises ==
    call.fn = "simplify" =>
        /\ ~call.out.threw
        /\ call.out.null \/ call.out.kv # << >>
        /\ FailsBothParses(call.text) => call.out.null

\* a document whose properties hold a null entry: null, and nothing thrown
C15_Witness ==
    /\ call.fn = "simplify"
    /\ JSONparse(call.text).ok
    /\ \E e \in AsMapping(Entries(GetOwn(Entries(JSONparse(call.text).v), "properties"))) :
          e[2] = JNull
    /\ call.out.null
    /\ ~call.out.threw

\* the fields simplify is to return for a document: the entries of its
\* properties that are objects with a type entry, each with that type
TypedProperties(doc) ==
    {<<e[1], GetOwn(e[2].kv, "type")>> :
        e \in {p \in AsMapping(Entries(GetOwn(Entries(doc), "properties"))) :
                  p[2].t \in {"object", "array"} /\ HasOwn(p[2].kv, "type")}}

\* C16: for a text that the direct parse accepts, or else the parse of the
\* text cleaned once, simplify returns the mapping of exactly the entries of
\* the properties that are objects with a type entry, and null when there are
\* none.
C16_SimplifyTypedEntries ==
    (call.fn = "simplify" /\ ParsedSchema(call.text).ok) =>
        LET typed == TypedProperties(ParsedSchema(call.text).v)
        IN  IF typed = {} THEN call.out.null
            ELSE ~call.out.null /\ AsMapping(call.out.kv) = typed

\* the committed config of the selected node
Committed == nodeConfigs[selected]

\* a schema editor handed over a view that its translator accepted
Translated ==
    /\ lastEvent.op \in {"updateOutputSchema", "updateOutputJsonSchema"}
    /\ call.fn # "none"
    /\ ~call.out.null

\* a schema editor handed over an empty view, or one its translator refused
Untranslated ==
    /\ lastEvent.op \in {"updateOutputSchema", "updateOutputJsonSchema"}
    /\ call.fn = "none" \/ call.out.null

\* C11: a schema editor that is handed a view its translator accepts issues
\* one commit that holds the edited view as given and the other view as the
\* translator returned it, and simplify of the committed output_json_schema
\* is then the committed output_schema.
C11_SchemaEditCommitsBoth ==
    Translated =>
        /\ Len(dispatched) = 1
        /\ dispatched[1].id = selected
        /\ Committed = dispatched[1].data
        /\ IF lastEvent.op = "updateOutputSchema"
           THEN /\ Committed.output_schema = call.schema.kv
                /\ Committed.output_json_schema = call.out.text
           ELSE /\ Committed.output_json_schema = call.text
                /\ Committed.output_schema = call.out.kv
        /\ LET back == extractSchemaFromJsonSchema(Committed.output_json_schema)
           IN  /\ ~back.null
               /\ AsMapping(back.kv) = AsMapping(Committed.output_schema)

\* the config a schema editor found, with the edited view replaced
EditedViewOnly(config) ==
    IF lastEvent.op = "updateOutputSchema"
    THEN [config EXCEPT !.output_schema = call.schema.kv]
    ELSE [config EXCEPT !.output_json_schema = call.text]

C20_TitleErrorShown ==
    (lastEvent.op = "editTitle" /\ lastEvent.text \in WithWhitespace) =>
        /\ showTitleError
        /\ Committed.title \in {lastEvent.before.committed.title,
                                convertToPythonVariableName(lastEvent.text)}

\* what an edge contributes to the upstream fields of a node: the fields of
\* its source's output_schema, in order, under the source's title or id
Contribution(nodeId, edge) ==
    LET fields == nodeConfigs[edge.source].output_schema
        name == IF nodeConfigs[edge.source].title # ""
                THEN nodeConfigs[edge.source].title ELSE edge.source
    IN  IF edge.target = nodeId /\ edge.source \in {nodes[j].id : j \in DOMAIN nodes}
        THEN [i \in DOMAIN fields |-> name \o "." \o fields[i][1]]
        ELSE << >>

\* the contributions of the first k edges, one after the other
RECURSIVE UpstreamFields(_, _)
UpstreamFields(nodeId, k) ==
    IF k = 0 THEN << >>
    ELSE UpstreamFields(nodeId, k - 1) \o Contribution(nodeId, edges[k])

\* C17: the upstream fields collected for a node are the contributions of the
\* edges in edge order: for every edge into the node whose source exists, the
\* fields of the source's committed output_schema in their order, under the
\* source's title, or its id when it has no title.
C17_UpstreamInEdgeOrder ==
    (lastEvent.op \in {"select", "switch"}) =>
        incomingSchema = UpstreamFields(selected, Len(edges))

\* two incoming edges, from A {x} and from B {y}
C17_Witness ==
    /\ lastEvent.op = "select"
    /\ selected = "n3"
    /\ Len(edges) = 2
    /\ \A i \in DOMAIN edges : edges[i].target = selected
    /\ nodeConfigs[edges[1].source].title = "A"
    /\ nodeConfigs[edges[2].source].title = "B"
    /\ incomingSchema = <<"A.x", "B.y">>

\* the type names of the registry
RegisteredNames ==
    UNION {{NodeTypesByCategory[c][t].name : t \in DOMAIN NodeTypesByCategory[c]} :
              c \in DOMAIN NodeTypesByCategory}

\* the objects of the registry are as they were
RegistryIntact(h) == \A a \in DOMAIN RegistryHeap : h[a] = RegistryHeap[a]

\* C18: createNode returns null exactly when no category of the registry
\* holds a type of the name, and such a call changes neither the registry nor
\* any state of the store.
C18_NullOnlyForUnknownType ==
    [][lastEvent'.op = "createNode" =>
          LET returned == created'[Len(created')]
          IN  /\ returned.null <=> lastEvent'.text \notin RegisteredNames
              /\ returned.null =>
                    /\ heap' = heap
                    /\ UNCHANGED <<nodeConfigs, nodes, edges, selected, currentNodeConfig>>]_vars

\* a call for an unknown type after a call for a known one
C18_Witness ==
    /\ lastEvent.op = "createNode"
    /\ lastEvent.text = "NoSuchNode"
    /\ Len(created) = 2
    /\ ~created[1].null
    /\ created[2].null
    /\ RegistryIntact(heap)

\* the default configuration of a type, through every depth
DefaultOf(type) == Deep(RegistryHeap, FindFrom(type, 1)[1].config)

\* C19: the config createNode returns for a known type is the type's default
\* configuration with the title set to the id, and it is a deep copy: the call
\* leaves the registry as it was, and a change made later to a returned
\* config, at any depth, changes neither the registry nor any other returned
\* config.
C19_ConfigIsDeepCopy ==
    [][/\ (lastEvent'.op = "createNode" /\ ~created'[Len(created')].null) =>
             /\ Deep(heap', created'[Len(created')].config) =
                   DefineOwn(DefaultOf(lastEvent'.text), "title",
                             [prim |-> lastEvent'.id, obj |-> << >>])
             /\ RegistryIntact(heap')
             /\ \A j \in DOMAIN created :
                   ~created[j].null =>
                      Deep(heap', created[j].config) = Deep(heap, created[j].config)
       /\ lastEvent'.op = "mutate" =>
             /\ RegistryIntact(heap')
             /\ \A j \in DOMAIN created :
                   (j # lastEvent'.num /\ ~created[j].null) =>
                      Deep(heap', created[j].config) = Deep(heap, created[j].config)]_vars

\* two configs of one type, the nested model of the first changed, that of
\* the second and that of the registry as they were
C19_Witness ==
    /\ lastEvent.op = "mutate"
    /\ Len(created) = 2
    /\ created[1].type = "SingleLLMCallNode"
    /\ created[2].type = "SingleLLMCallNode"
    /\ Deep(heap, created[1].config)[1][2].obj = << <<"model", [prim |-> "changed", obj |-> << >>]>> >>
    /\ Deep(heap, created[2].config)[1][2].obj = << <<"model", [prim |-> "gpt-4o", obj |-> << >>]>> >>
    /\ RegistryIntact(heap)

\* the node types whose model the load defaults
LLMTypes == {"LLMNode", "SingleLLMCallNode"}

\* C21: when a node becomes selected, the working config is the node's
\* committed config (the empty config when none is committed), except that
\* for the types LLMNode and SingleLLMCallNode a model that is not set becomes
\* gpt-4o; a model that is set is kept, every other field equals the
\* committed one, and nothing is committed to the store.
C21_LoadSeedsWorkingConfig ==
    [][lastEvent'.op \in {"select", "switch"} =>
          LET n == lastEvent'.id
              committed == nodeConfigs[n]
          IN  /\ ~crashed'
              /\ selected' = n
              /\ currentNodeConfig'.llm_info.model =
                    IF NodeType(n) \in LLMTypes /\ committed.llm_info.model = NoModel
                    THEN "gpt-4o"
                    ELSE committed.llm_info.model
              /\ [currentNodeConfig' EXCEPT !.llm_info.model = committed.llm_info.model]
                    = committed
              /\ nodeConfigs' = nodeConfigs
              /\ dispatched' = << >>]_vars

\* the list the handler found and the list the store holds after it
ExamplesBefore == lastEvent.before.working.few_shot_examples
ExamplesAfter == nodeConfigs[selected].few_shot_examples

\* the one commit of the handler: immediate, of the selected node, and no
\* debounce armed or restarted by it
OneCommitOfExamples ==
    /\ Len(dispatched) = 1
    /\ dispatched[1].type = "updateNodeConfigOnly"
    /\ dispatched[1].id = selected
    /\ dispatched[1].data.few_shot_examples = ExamplesAfter

\* C22: addExample appends one pair of empty strings at the end of
\* few_shot_examples and leaves the elements before it in place;
\* deleteExample(i) with 0 <= i < length removes the element at position i
\* and keeps the others in their order; each makes exactly one immediate
\* commit; and deleting the last index after an addExample gives the list
\* the addExample found.
C22_ExamplesAddDelete ==
    /\ lastEvent.op = "addExample" =>
          /\ Len(ExamplesAfter) = Len(ExamplesBefore) + 1
          /\ ExamplesAfter[Len(ExamplesAfter)] = [input |-> "", output |-> ""]
          /\ \A j \in DOMAIN ExamplesBefore : ExamplesAfter[j] = ExamplesBefore[j]
          /\ OneCommitOfExamples
          /\ Spliced(ExamplesAfter, Len(ExamplesAfter) - 1) = ExamplesBefore
    /\ lastEvent.op = "deleteExample" =>
          /\ lastEvent.num \in 0..(Len(ExamplesBefore) - 1)
          /\ Len(ExamplesAfter) = Len(ExamplesBefore) - 1
          /\ \A j \in DOMAIN ExamplesAfter :
                ExamplesAfter[j] =
                    IF j <= lastEvent.num THEN ExamplesBefore[j] ELSE ExamplesBefore[j + 1]
          /\ OneCommitOfExamples

\* the first of three examples deleted, the third of them added before
C22_Witness ==
    /\ lastEvent.op = "deleteExample"
    /\ lastEvent.num = 0
    /\ Len(ExamplesBefore) = 3
    /\ ExamplesBefore[3] = EmptyExample
    /\ ExamplesAfter = <<[input |-> "b", output |-> "2"], EmptyExample>>

\* the constraints of a node type report that the model supports JSON
\* output, or hold nothing for the model
SupportedBy(type, modelId) ==
    LET known == ModelConstraintsOf(type)
    IN  modelId \in DOMAIN known => known[modelId].supports_JSON_output

Supported(modelId) == SupportedBy(NodeType(selected), modelId)

\* the two views of the output schema a config holds
Views(config) == <<config.output_schema, config.output_json_schema>>

\* C23: the output_schema and output_json_schema editors take an edit
\* exactly when the constraints of the working model report
\* supports_JSON_output, or hold nothing for the model; and while the model
\* does not support JSON output, no step of the sidebar, its mount included,
\* changes either view of the node, in the store or in the working config.
C23_SchemaEditorsGated ==
    /\ [](selected # NoNode =>
            /\ "output_schema" \in SchemaFields(NodeType(selected)) =>
                  ((ENABLED UpdateOutputSchema(<< >>))
                      <=> Supported(currentNodeConfig.llm_info.model))
            /\ "output_json_schema" \in SchemaFields(NodeType(selected)) =>
                  ((ENABLED UpdateOutputJsonSchema(<<"hello">>))
                      <=> Supported(currentNodeConfig.llm_info.model)))
    /\ [][(selected # NoNode /\ ~Supported(currentNodeConfig.llm_info.model)) =>
             /\ lastEvent'.op \notin {"updateOutputSchema", "updateOutputJsonSchema"}
             /\ Views(nodeConfigs'[selected]) = Views(nodeConfigs[selected])
             /\ Views(currentNodeConfig') = Views(currentNodeConfig)]_vars
    /\ [][(lastEvent'.op = "select" /\ ~crashed'
              /\ ~SupportedBy(NodeType(selected'), nodeConfigs[selected'].llm_info.model)) =>
             Views(nodeConfigs'[selected']) = Views(nodeConfigs[selected'])]_vars

\* C24: an edit made through the affordance of a nested field, at any depth,
\* changes the working config at the path the affordance shows its value
\* from: the value at that path is the new value, and no other key, at the
\* top or nested, is created or changed.
C24_NestedEditAtOwnPath ==
    (lastEvent.op = "nestedEdit" /\ Len(lastEvent.path) >= 2) =>
        /\ GetIn(currentNodeConfig, lastEvent.path) = lastEvent.text
        /\ currentNodeConfig =
              LodashSet(lastEvent.before.working, lastEvent.path, lastEvent.text)

\* ---------------------------------------------------------------- C25
\* the ids and the data of the nodes, in order: the nodes without their
\* positions
Unplaced(allNodes) == [i \in DOMAIN allNodes |-> [allNodes[i] EXCEPT !.position = 0]]

ListIsCurrent == incomingSchema = collectIncomingSchema(selected)

\* C25: after every step that changes the selected node, state.flow.nodes or
\* state.flow.edges the list of the mounted sidebar is collectIncomingSchema
\* of the store as it is now, and a step that changes none of the three
\* leaves the list as it was
C25_ListFollowsStore ==
    [][/\ (selected' # NoNode /\ (selected' # selected \/ nodes' # nodes \/ edges' # edges))
            => ListIsCurrent'
       /\ (selected # NoNode /\ selected' = selected /\ nodes' = nodes /\ edges' = edges)
            => incomingSchema' = incomingSchema]_vars

\* C25 amended: the same, where a change of state.flow.nodes is a change of
\* anything but the position of a node; a step that only moves nodes leaves
\* the list as it was, as a step that only changes configs does
C25_Amended ==
    [][/\ (selected' # NoNode
            /\ (selected' # selected \/ Unplaced(nodes') # Unplaced(nodes) \/ edges' # edges))
            => ListIsCurrent'
       /\ (selected # NoNode /\ selected' = selected
            /\ Unplaced(nodes') = Unplaced(nodes) /\ edges' = edges)
            => incomingSchema' = incomingSchema]_vars

\* a node was moved while the list was behind the store, and the list is
\* still behind it
C25_Witness ==
    /\ lastEvent.op = "store"
    /\ lastEvent.path = "position"
    /\ selected # NoNode
    /\ incomingSchema # << >>
    /\ ~ListIsCurrent

\* ---------------------------------------------------------------- C26
\* C26: a title edit dispatches one updateNodeTitle with the selected node
\* and the value made a Python variable name, and no updateNodeConfigOnly: of
\* the committed configs only the title of the selected node changes; the
\* timers are left as they were, and the working config is left as it was or
\* is what the load effect makes of the committed config, nothing the
\* handler wrote
C26_TitleBypassesEditField ==
    [][lastEvent'.op = "editTitle" =>
          LET validTitle == convertToPythonVariableName(lastEvent'.text)
          IN  /\ dispatched' = <<[type |-> "updateNodeTitle", id |-> selected,
                                  newTitle |-> validTitle]>>
              /\ nodeConfigs' = [nodeConfigs EXCEPT ![selected].title = validTitle]
              /\ pending' = pending
              /\ orphans' = orphans
              /\ currentNodeConfig' \in {currentNodeConfig,
                                         LoadConfig(selected, nodeConfigs'[selected])}]_vars

\* a title with white space was entered while a slider edit was waiting for
\* its commit
C26_Witness ==
    /\ lastEvent.op = "editTitle"
    /\ lastEvent.text \in WithWhitespace
    /\ lastEvent.before.working # lastEvent.before.committed
    /\ pending.armed
    /\ Len(dispatched) = 1
    /\ dispatched[1].type = "updateNodeTitle"

\* ---------------------------------------------------------------- C27
\* the slider fields of a config
SliderFieldsOf(config) ==
    [temperature |-> config.llm_info.temperature,
     max_tokens |-> config.llm_info.max_tokens]

\* C27: a slider edit made while only slider edits of the same node wait for
\* their commit leaves the timer holding the new value of its field and the
\* waiting value of the other field, and the expiry commits what the timer
\* holds, in one commit
C27_SlidersOfOneWindow ==
    [][/\ (lastEvent'.op = "slider" /\ pending.armed /\ burst.pure /\ ~burst.done
             /\ burst.id = selected)
          => /\ pending'.armed
             /\ pending'.id = selected
             /\ SliderFieldsOf(pending'.data) =
                   IF lastEvent'.path = "llm_info.temperature"
                   THEN [SliderFieldsOf(pending.data) EXCEPT !.temperature = lastEvent'.num]
                   ELSE [SliderFieldsOf(pending.data) EXCEPT !.max_tokens = lastEvent'.num]
       /\ (lastEvent'.op = "fire" /\ burst.pure)
          => /\ dispatched' = <<Commit(pending.id, pending.data)>>
             /\ SliderFieldsOf(nodeConfigs'[pending.id]) = SliderFieldsOf(pending.data)]_vars

\* the commit of a window in which both sliders were moved, and nothing else
\* was done, carries the values of both
C27_Witness ==
    /\ lastEvent.op = "fire"
    /\ burst.pure
    /\ burst.calls = 2
    /\ Len(dispatched) = 1
    /\ SliderFieldsOf(dispatched[1].data) = [temperature |-> 15, max_tokens |-> 8000]
    /\ SliderFieldsOf(nodeConfigs[lastEvent.id]) = [temperature |-> 15, max_tokens |-> 8000]

\* ---------------------------------------------------------------- C28
\* C28: the text field is committed by every edit of it, so that its
\* committed value is its latest; the expiry of a debounce leaves it as it is
C28_ExpiryKeepsCommittedEdits ==
    [][lastEvent'.op = "fire" =>
          \A n \in Nodes : nodeConfigs'[n].system_message = nodeConfigs[n].system_message]_vars

\* ---------------------------------------------------------------- C29
\* C29: after a model select that chooses a model with constraints, a
\* temperature that was set and inside the model's range, 0 included, and a
\* max_tokens that was set and at most the model's, are committed as they were
C29_ValuesInRangeKept ==
    ModelChanged(TRUE) =>
        LET t == lastEvent.before.working.llm_info.temperature
            n == lastEvent.before.working.llm_info.max_tokens
        IN  /\ (t # Unset /\ InRange(t, ChosenConstraints.min_temperature,
                                     ChosenConstraints.max_temperature))
                  => nodeConfigs[selected].llm_info.temperature = t
            /\ (n # Unset /\ n <= ChosenConstraints.max_tokens)
                  => nodeConfigs[selected].llm_info.max_tokens = n

\* ---------------------------------------------------------------- C30
\* the text the mount generates for a committed config, or null
Generated(config) == generateJsonSchemaFromSchema(Mapping(config.output_schema))

\* C30: the mount of the sidebar for a node whose committed config holds a
\* non-empty output_schema and no output_json_schema, when a text is generated
\* for the schema, dispatches one commit of the committed config with that
\* text as its output_json_schema, and the working config holds the text;
\* any other mount dispatches nothing and leaves every committed config
C30_MountGeneratesJsonSchema ==
    [][(selected = NoNode /\ selected' # NoNode) =>
          LET nodeConfig == nodeConfigs[selected']
              jsonSchema == Generated(nodeConfig)
          IN  IF nodeConfig.output_schema # << >>
                 /\ nodeConfig.output_json_schema = << >>
                 /\ ~jsonSchema.null
              THEN /\ dispatched' =
                         <<Commit(selected', [nodeConfig EXCEPT
                                                 !.output_json_schema = jsonSchema.text])>>
                   /\ nodeConfigs' = [nodeConfigs EXCEPT
                                         ![selected'].output_json_schema = jsonSchema.text]
                   /\ currentNodeConfig'.output_json_schema = jsonSchema.text
              ELSE /\ dispatched' = << >>
                   /\ nodeConfigs' = nodeConfigs]_vars

\* mounted for a node of two fields and no model: the text is committed, the
\* model is not
C30_Witness ==
    /\ lastEvent.op = "select"
    /\ selected = "n1"
    /\ Len(nodeConfigs[selected].output_schema) = 2
    /\ Len(dispatched) = 1
    /\ dispatched[1].data = nodeConfigs[selected]
    /\ nodeConfigs[selected].output_json_schema = Generated(nodeConfigs[selected]).text
    /\ nodeConfigs[selected].output_json_schema # << >>
    /\ nodeConfigs[selected].llm_info.model = NoModel
    /\ currentNodeConfig.llm_info.model = DefaultModel

=========================================================================
